---- MODULE Spec2Model ----
(***************************************************************************)
(* LocalMemo: the in-memory note repository (MemoService), the note entity *)
(* (Memo) and the key-value adapter (StorageManager) it persists through.  *)
(*                                                                         *)
(* Encoding of JavaScript values                                           *)
(*   string          a sequence of one-character strings, "" is << >>      *)
(*   array of tags   a sequence of strings (a sequence of sequences)       *)
(*   number, boolean an integer, a BOOLEAN                                 *)
(*   id              an element of Ids (an opaque non-empty string)        *)
(*   category        "Work" "Life" "Study" "Other" for the four literals   *)
(*                   of memo.js:109, priority "High" "Medium" "Low" for    *)
(*                   the three of memo.js:114                              *)
(*   null, 5         in a string field: Null, Num5; the number 5 in the    *)
(*                   tags field: Num5Tags.  Their one element is no        *)
(*                   character, so they are no strings of the model.       *)
(*   error message   a short key, see the table at validate                *)
(***************************************************************************)
EXTENDS Integers, Sequences, FiniteSets, TLC

\* ---------------------------------------------------------------- bounds
\* The longest collection the model builds.
MaxMemos == 2
\* The largest value Date.now() returns.
MaxClock == 2
\* The number of distinct ids.
NumIds == 3
\* The longest id list given to batchDeleteMemos.
MaxBatch == 2
\* The number of repository calls with well-typed arguments in a run.
MaxCalls == 2
\* The number of updateMemo calls with an ill-typed patch in a run.
MaxIllTyped == 1
\* The longest collection the queries are applied to.
MaxQueryMemos == 3
\* The notes of the largest collection the statistics are taken of.
MaxStatMemos == 40

\* ------------------------------------------------------ program constants
TitleMax == 100
ContentMax == 5000
\* The id a field set without an id carries ('' and undefined are falsy).
NoId == 0

Ids == 1..NumIds

\* ---------------------------------------------------------------- values
Null == <<"#null">>
Num5 == <<"#5">>
Num5Tags == << <<"#5">> >>

Str(c, n) == [i \in 1..n |-> c]
A == <<"a">>
B == <<"b">>
Blank == <<" ">>
LongTitle == Str("x", TitleMax + 1)
LongContent == Str("x", ContentMax + 1)

validCategories == {"Work", "Life", "Study", "Other"}
validPriorities == {"High", "Medium", "Low"}

\* x || d for a string field: '' and null are falsy, a number 5 is not.
TruthyStr(v) == v # <<>> /\ v # Null
Has(data, k) == k \in DOMAIN data

\* String.prototype.trim
RECURSIVE TrimLeft(_)
TrimLeft(s) == IF s # <<>> /\ Head(s) = " " THEN TrimLeft(Tail(s)) ELSE s
RECURSIVE TrimRight(_)
TrimRight(s) ==
  IF s # <<>> /\ s[Len(s)] = " " THEN TrimRight(SubSeq(s, 1, Len(s) - 1)) ELSE s
trim(s) == TrimRight(TrimLeft(s))

\* ------------------------------------------------------------ Memo entity
\* new Memo(data): g is what generateId() returns, t1 and t2 what the two
\* Date.now() calls return; each is used only when the field is falsy.
Memo(data, g, t1, t2) ==
  [ id          |-> IF Has(data, "id") /\ data.id # NoId THEN data.id ELSE g,
    title       |-> IF Has(data, "title") /\ TruthyStr(data.title)
                      THEN data.title ELSE <<>>,
    content     |-> IF Has(data, "content") /\ TruthyStr(data.content)
                      THEN data.content ELSE <<>>,
    category    |-> IF Has(data, "category") /\ data.category # ""
                      THEN data.category ELSE "Other",
    priority    |-> IF Has(data, "priority") /\ data.priority # ""
                      THEN data.priority ELSE "Medium",
    tags        |-> IF Has(data, "tags") THEN data.tags ELSE <<>>,
    createdAt   |-> IF Has(data, "createdAt") /\ data.createdAt # 0
                      THEN data.createdAt ELSE t1,
    updatedAt   |-> IF Has(data, "updatedAt") /\ data.updatedAt # 0
                      THEN data.updatedAt ELSE t2,
    isCompleted |-> IF Has(data, "isCompleted") THEN data.isCompleted ELSE FALSE ]

\* Whether new Memo(data) calls generateId(), and Date.now() for each stamp.
NeedsId(data) == ~(Has(data, "id") /\ data.id # NoId)
NeedsCreatedAt(data) == ~(Has(data, "createdAt") /\ data.createdAt # 0)
NeedsUpdatedAt(data) == ~(Has(data, "updatedAt") /\ data.updatedAt # 0)

fromObject(obj, g, t1, t2) == Memo(obj, g, t1, t2)

\* update without the whitelist of l.41: the keys id and createdAt of the
\* patch are assigned as well.
updateEveryKey(memo, updates, t) ==
  [ id          |-> IF Has(updates, "id") THEN updates.id ELSE memo.id,
    title       |-> IF Has(updates, "title") THEN updates.title ELSE memo.title,
    content     |-> IF Has(updates, "content") THEN updates.content ELSE memo.content,
    category    |-> IF Has(updates, "category") THEN updates.category ELSE memo.category,
    priority    |-> IF Has(updates, "priority") THEN updates.priority ELSE memo.priority,
    tags        |-> IF Has(updates, "tags") THEN updates.tags ELSE memo.tags,
    createdAt   |-> IF Has(updates, "createdAt") THEN updates.createdAt ELSE memo.createdAt,
    updatedAt   |-> t,
    isCompleted |-> IF Has(updates, "isCompleted")
                      THEN updates.isCompleted ELSE memo.isCompleted ]
\* Memo.update(updates): the whitelisted keys, then updatedAt = Date.now().
update(memo, updates, t) ==
  [ id          |-> memo.id,
    title       |-> IF Has(updates, "title") THEN updates.title ELSE memo.title,
    content     |-> IF Has(updates, "content") THEN updates.content ELSE memo.content,
    category    |-> IF Has(updates, "category") THEN updates.category ELSE memo.category,
    priority    |-> IF Has(updates, "priority") THEN updates.priority ELSE memo.priority,
    tags        |-> IF Has(updates, "tags") THEN updates.tags ELSE memo.tags,
    createdAt   |-> memo.createdAt,
    updatedAt   |-> t,
    isCompleted |-> IF Has(updates, "isCompleted")
                      THEN updates.isCompleted ELSE memo.isCompleted ]

\* Memo.toggleComplete()
toggleComplete(memo, t) ==
  [memo EXCEPT !.isCompleted = ~memo.isCompleted, !.updatedAt = t]

\* Memo.validate().  threw: a TypeError leaves validate (.trim of a number,
\* .length of null).  Error keys, in the order of the pushes:
\*   "title_empty" l.98, "title_long" l.102, "content_long" l.106,
\*   "category" l.111, "priority" l.116
validateThrows(memo) ==
  memo.title = Num5 \/ memo.title = Null \/ memo.content = Null
\* validateErrors with the title rule of l.97 checked without trim().
validateErrorsNoTrim(memo) ==
  (IF memo.title = <<>> THEN <<"title_empty">> ELSE <<>>)
  \o (IF Len(memo.title) > TitleMax THEN <<"title_long">> ELSE <<>>)
  \o (IF memo.content # Num5 /\ Len(memo.content) > ContentMax
        THEN <<"content_long">> ELSE <<>>)
  \o (IF memo.category \notin validCategories THEN <<"category">> ELSE <<>>)
  \o (IF memo.priority \notin validPriorities THEN <<"priority">> ELSE <<>>)
\* validate() returning at the first rule that is violated.
validateErrorsFirstOnly(memo) ==
  IF memo.title = <<>> \/ trim(memo.title) = <<>> THEN <<"title_empty">>
  ELSE IF Len(memo.title) > TitleMax THEN <<"title_long">>
  ELSE IF memo.content # Num5 /\ Len(memo.content) > ContentMax THEN <<"content_long">>
  ELSE IF memo.category \notin validCategories THEN <<"category">>
  ELSE IF memo.priority \notin validPriorities THEN <<"priority">>
  ELSE <<>>
validateErrors(memo) ==
  (IF memo.title = <<>> \/ trim(memo.title) = <<>> THEN <<"title_empty">> ELSE <<>>)
  \o (IF Len(memo.title) > TitleMax THEN <<"title_long">> ELSE <<>>)
  \o (IF memo.content # Num5 /\ Len(memo.content) > ContentMax
        THEN <<"content_long">> ELSE <<>>)
  \o (IF memo.category \notin validCategories THEN <<"category">> ELSE <<>>)
  \o (IF memo.priority \notin validPriorities THEN <<"priority">> ELSE <<>>)
validate(memo) ==
  IF validateThrows(memo)
    THEN [threw |-> TRUE, isValid |-> FALSE, errors |-> <<>>]
    ELSE [threw |-> FALSE, isValid |-> validateErrors(memo) = <<>>,
          errors |-> validateErrors(memo)]

\* Memo.toObject(): [...this.tags] throws when tags is not iterable.
toObjectThrows(memo) == memo.tags = Num5Tags
toObject(memo) ==
  [ id          |-> memo.id,
    title       |-> memo.title,
    content     |-> memo.content,
    category    |-> memo.category,
    priority    |-> memo.priority,
    tags        |-> [i \in 1..Len(memo.tags) |-> memo.tags[i]],
    createdAt   |-> memo.createdAt,
    updatedAt   |-> memo.updatedAt,
    isCompleted |-> memo.isCompleted ]

\* ------------------------------------------------------------------ state
VARIABLES
  memos,    \* MemoService.memos, the canonical collection
  stored,   \* the array last written under the 'memos' key of the adapter
  now,      \* the value the last Date.now() call returned
  calls,    \* the number of repository calls made with well-typed arguments
  illTyped, \* the number of updateMemo calls made with an ill-typed patch
  last,     \* the last repository call: its name and arguments, the
            \* collection before it, the envelope it returned, what it did
            \* to the adapter and, for a query, the array it returned
  entities, \* the Memo objects a caller of the entity holds; the tags of
            \* an object is the address of an array of the heap
  heap,     \* the arrays of tags: heap[a] is the content of the array a
  localStorage \* window.localStorage: the text under each key
vars == <<memos, stored, now, calls, illTyped, last, entities, heap, localStorage>>

\* No entity is held and the underlying store is empty.
NoObjects ==
  /\ entities = <<>>
  /\ heap = <<>>
  /\ localStorage = <<>>

\* ------------------------------------------------- Memo entity, by reference
\* A Memo object holds its tags by reference: its tags field is the address
\* of an array of the heap h.  The value of the object, tags read.
read(memo, h) == [memo EXCEPT !.tags = h[memo.tags]]

\* toObject() with tags: this.tags, the array of the note itself.
toObjectSharingTags(memo, h) ==
  [obj |-> [toObject(read(memo, h)) EXCEPT !.tags = memo.tags], heap |-> h]
\* Memo.toObject() on the heap: [...this.tags] is a new array with the same
\* elements.  Returns the plain object and the heap.
toObjectIn(memo, h) ==
  [obj  |-> [toObject(read(memo, h)) EXCEPT !.tags = Len(h) + 1],
   heap |-> Append(h, toObject(read(memo, h)).tags)]

\* Array.prototype.indexOf: the first position of x, 0 for -1.
indexOf(arr, x) ==
  IF \E i \in DOMAIN arr : arr[i] = x
    THEN CHOOSE i \in DOMAIN arr : arr[i] = x /\ \A j \in 1..(i - 1) : arr[j] # x
    ELSE 0

\* addTag(tag) without the test !this.tags.includes(tag).
addTagAlways(memo, h, tag, t) ==
  IF tag # <<>>
    THEN [memo |-> [memo EXCEPT !.updatedAt = t],
          heap |-> [h EXCEPT ![memo.tags] = Append(@, tag)]]
    ELSE [memo |-> memo, heap |-> h]
\* Memo.addTag(tag): t is what Date.now() returns.
addTag(memo, h, tag, t) ==
  IF tag # <<>> /\ indexOf(h[memo.tags], tag) = 0
    THEN [memo |-> [memo EXCEPT !.updatedAt = t],
          heap |-> [h EXCEPT ![memo.tags] = Append(@, tag)]]
    ELSE [memo |-> memo, heap |-> h]

\* Memo.removeTag(tag)
removeTag(memo, h, tag, t) ==
  LET index == indexOf(h[memo.tags], tag)
  IN IF index > 0
       THEN [memo |-> [memo EXCEPT !.updatedAt = t],
             heap |-> [h EXCEPT ![memo.tags] =
                         SubSeq(@, 1, index - 1) \o SubSeq(@, index + 1, Len(@))]]
       ELSE [memo |-> memo, heap |-> h]

\* ------------------------------------------------------- StorageManager
\* StorageManager.set(key, value): JSON.stringify and setItem; ok is whether
\* the underlying store takes the write.  Returns the boolean and the store.
set(st, value, ok) == [ret |-> ok, stored |-> IF ok THEN value ELSE st]

\* ------------------------------------- StorageManager on window.localStorage
\* A string is the sequence of its characters; ls is the underlying store,
\* a function from the keys it holds to the text under each.
\* `${this.namespace}:${key}`
getKey(namespace, key) == namespace \o <<":">> \o key

\* String.prototype.startsWith
startsWith(s, prefix) ==
  Len(prefix) <= Len(s) /\ SubSeq(s, 1, Len(prefix)) = prefix

\* getAllKeys(): the keys of the store that start with the prefix.
getAllKeys(ls, namespace) ==
  { key \in DOMAIN ls : startsWith(key, namespace \o <<":">>) }

\* The values given to set: numbers of one digit, strings without quote or
\* backslash, null, and an object that refers to itself.
Digits == <<"0", "1", "2", "3", "4", "5", "6", "7", "8", "9">>
JsonNumber(n) == [type |-> "number", n |-> n]
JsonString(str) == [type |-> "string", s |-> str]
JsonNull == [type |-> "null"]
Circular == [type |-> "circular"]
NullText == <<"n", "u", "l", "l">>

\* JSON.stringify writing a string without its quotes.
stringifyUnquoted(value) ==
  CASE value.type = "number" -> <<Digits[value.n + 1]>>
    [] value.type = "string" -> value.s
    [] OTHER -> NullText
\* JSON.stringify(value); it throws a TypeError on a circular structure.
stringifyThrows(value) == value.type = "circular"
stringify(value) ==
  CASE value.type = "number" -> <<Digits[value.n + 1]>>
    [] value.type = "string" -> <<"\"">> \o value.s \o <<"\"">>
    [] OTHER -> NullText

\* JSON.parse(text): threw is a SyntaxError.
parse(text) ==
  IF text = NullText THEN [threw |-> FALSE, value |-> JsonNull]
  ELSE IF Len(text) = 1 /\ \E n \in 0..9 : Digits[n + 1] = text[1]
    THEN [threw |-> FALSE,
          value |-> JsonNumber(CHOOSE n \in 0..9 : Digits[n + 1] = text[1])]
  ELSE IF /\ Len(text) >= 2
          /\ text[1] = "\""
          /\ text[Len(text)] = "\""
          /\ \A i \in 2..(Len(text) - 1) : text[i] \notin {"\"", "\\"}
    THEN [threw |-> FALSE, value |-> JsonString(SubSeq(text, 2, Len(text) - 1))]
  ELSE [threw |-> TRUE, value |-> JsonNull]

\* set(key, value), l.31-43: accept is whether setItem takes the write (it
\* throws QuotaExceededError otherwise).  Returns the boolean and the store.
setIn(ls, namespace, key, value, accept) ==
  IF stringifyThrows(value) \/ ~accept
    THEN [ret |-> FALSE, ls |-> ls]
    ELSE [ret |-> TRUE, ls |-> (getKey(namespace, key) :> stringify(value)) @@ ls]

\* get(key, defaultValue), l.51-62
get(ls, namespace, key, defaultValue) ==
  IF getKey(namespace, key) \notin DOMAIN ls THEN defaultValue
  ELSE IF parse(ls[getKey(namespace, key)]).threw THEN defaultValue
  ELSE parse(ls[getKey(namespace, key)]).value

\* clear(), l.83-94: removeItem for each key of getAllKeys().
clear(ls, namespace) ==
  [key \in DOMAIN ls \ getAllKeys(ls, namespace) |-> ls[key]]

\* importData, l.200-207: the forEach over Object.keys(data).  entries are
\* the pairs <<key, value>> of data; accepted the keys whose write the store
\* takes.  The boolean set returns is not read, and set never throws.
RECURSIVE storageImportLoop(_, _, _, _, _)
storageImportLoop(entries, ls, namespace, accepted, imported) ==
  IF entries = <<>> THEN [ls |-> ls, imported |-> imported, errors |-> <<>>]
  ELSE storageImportLoop(Tail(entries),
                         setIn(ls, namespace, Head(entries)[1], Head(entries)[2],
                               Head(entries)[1] \in accepted).ls,
                         namespace, accepted, imported + 1)

\* StorageManager.importData(exportedData, clearExisting), l.182-218
storageImportData(ls, namespace, exportedData, clearExisting, accepted) ==
  IF Has(exportedData, "isNull") \/ ~Has(exportedData, "data")
    THEN [success |-> FALSE, imported |-> 0, errors |-> <<"format">>, ls |-> ls]
    ELSE LET done == storageImportLoop(exportedData.data,
                                       IF clearExisting THEN clear(ls, namespace) ELSE ls,
                                       namespace, accepted, 0)
         IN [success |-> done.errors = <<>>, imported |-> done.imported,
             errors |-> done.errors, ls |-> done.ls]

\* ---------------------------------------------------------- MemoService
Range(f) == {f[i] : i \in DOMAIN f}
IdsOf(ms) == {ms[i].id : i \in DOMAIN ms}
Min(a, b) == IF a < b THEN a ELSE b

\* Memo.generateId(): a random UUID, taken to differ from every id in use.
generateId(used) == CHOOSE g \in Ids \ used : \A h \in Ids \ used : g <= h

\* findIndex with its -1 taken for a position, as splice(-1, 1) takes it: the
\* last one.
findIndexOrLast(ms, id) ==
  IF \E i \in DOMAIN ms : ms[i].id = id
    THEN CHOOSE i \in DOMAIN ms : ms[i].id = id /\ \A j \in 1..(i - 1) : ms[j].id # id
    ELSE Len(ms)
\* Array.prototype.findIndex(memo => memo.id === id): the first index, here
\* counted from 1, and 0 for the -1 of the source.
findIndex(ms, id) ==
  IF \E i \in DOMAIN ms : ms[i].id = id
    THEN CHOOSE i \in DOMAIN ms : ms[i].id = id /\ \A j \in 1..(i - 1) : ms[j].id # id
    ELSE 0

\* getMemoById(id): << >> for null, <<memo>> for the first note with the id.
getMemoById(ms, id) == IF findIndex(ms, id) = 0 THEN <<>> ELSE <<ms[findIndex(ms, id)]>>

\* splice(index, 1) and splice(index, 0, item), indices counted from 1; an
\* index past the end inserts at the end.
removeAt(ms, i) == SubSeq(ms, 1, i - 1) \o SubSeq(ms, i + 1, Len(ms))
insertAt(ms, i, item) ==
  LET k == Min(i, Len(ms) + 1)
  IN SubSeq(ms, 1, k - 1) \o <<item>> \o SubSeq(ms, k, Len(ms))

\* saveMemos(): map every memo through toObject, then storage.set.
saveThrows(ms) == \E i \in DOMAIN ms : toObjectThrows(ms[i])
toObjects(ms) == [i \in DOMAIN ms |-> toObject(ms[i])]
saveMemos(ms, st, ok) == set(st, toObjects(ms), ok)

\* loadMemos(): every stored object through Memo.fromObject; g and t are what
\* generateId() and Date.now() return for an object lacking an id or a stamp.
loadMemos(st, g, t) == [i \in DOMAIN st |-> fromObject(st[i], g, t, t)]

\* What a repository call leaves and returns: the collection, the store, the
\* envelope (success, errors, memo as << >> for null or <<memo>>, the deleted
\* or imported count) and the adapter write ("none", "ok", "failed").
Outcome(ms, st, success, errors, memo, count, write) ==
  [memos |-> ms, stored |-> st, success |-> success, errors |-> errors,
   memo |-> memo, count |-> count, write |-> write, exhausted |-> FALSE]

\* createMemo without the pop of l.67.
createMemoRollbackNone(ms) == ms
\* createMemo, l.67: this.memos.pop()
createMemoRollback(ms) == SubSeq(ms, 1, Len(ms) - 1)

createMemo(ms, st, memoData, g, t1, t2, setOk) ==
  LET memo == Memo(memoData, g, t1, t2)
      validation == validate(memo)
      pushed == Append(ms, memo)
      saved == saveMemos(pushed, st, setOk)
  IN IF validation.threw
       THEN Outcome(ms, st, FALSE, <<"exception">>, <<>>, 0, "none")
     ELSE IF ~validation.isValid
       THEN Outcome(ms, st, FALSE, validation.errors, <<>>, 0, "none")
     ELSE IF saveThrows(pushed)
       THEN Outcome(pushed, st, FALSE, <<"exception">>, <<>>, 0, "none")
     ELSE IF saved.ret
       THEN Outcome(pushed, saved.stored, TRUE, <<>>, <<memo>>, 0, "ok")
     ELSE Outcome(createMemoRollback(pushed), saved.stored, FALSE,
                  <<"save_failed">>, <<>>, 0, "failed")

\* updateMemo's rollback leaving updatedAt, and leaving tags, as patched.
updateMemoRollbackStaleStamp(memo, oldData, t) ==
  [fromObject(oldData, memo.id, t, t) EXCEPT !.updatedAt = memo.updatedAt]
updateMemoRollbackKeepsTags(memo, oldData, t) ==
  [fromObject(oldData, memo.id, t, t) EXCEPT !.tags = memo.tags]
\* updateMemo, l.125 and l.136: Object.assign(memo, Memo.fromObject(oldData))
\* overwrites all nine fields of the memo.
updateMemoRollback(memo, oldData, t) == fromObject(oldData, memo.id, t, t)

updateMemo(ms, st, id, updates, t, setOk) ==
  LET index == findIndex(ms, id)
      memo == ms[index]
      oldData == toObject(memo)
      updated == update(memo, updates, t)
      patched == [ms EXCEPT ![index] = updated]
      validation == validate(updated)
      restored == [ms EXCEPT ![index] = updateMemoRollback(updated, oldData, t)]
      saved == saveMemos(patched, st, setOk)
  IN IF index = 0
       THEN Outcome(ms, st, FALSE, <<"not_found">>, <<>>, 0, "none")
     ELSE IF toObjectThrows(memo)
       THEN Outcome(ms, st, FALSE, <<"exception">>, <<>>, 0, "none")
     ELSE IF validation.threw
       THEN Outcome(patched, st, FALSE, <<"exception">>, <<>>, 0, "none")
     ELSE IF ~validation.isValid
       THEN Outcome(restored, st, FALSE, validation.errors, <<>>, 0, "none")
     ELSE IF saveThrows(patched)
       THEN Outcome(patched, st, FALSE, <<"exception">>, <<>>, 0, "none")
     ELSE IF saved.ret
       THEN Outcome(patched, saved.stored, TRUE, <<>>, <<updated>>, 0, "ok")
     ELSE Outcome(restored, saved.stored, FALSE, <<"save_failed">>, <<>>, 0, "failed")

\* deleteMemo's rollback pushing the note at the end of the collection.
deleteMemoRollbackAtEnd(ms, index, deleted) == Append(ms, deleted)
\* deleteMemo, l.173: this.memos.splice(index, 0, ...deleted)
deleteMemoRollback(ms, index, deleted) == insertAt(ms, index, deleted)

deleteMemo(ms, st, id, setOk) ==
  LET index == findIndex(ms, id)
      deleted == ms[index]
      spliced == removeAt(ms, index)
      saved == saveMemos(spliced, st, setOk)
  IN IF index = 0
       THEN Outcome(ms, st, FALSE, <<"not_found">>, <<>>, 0, "none")
     ELSE IF saveThrows(spliced)
       THEN Outcome(spliced, st, FALSE, <<"exception">>, <<>>, 0, "none")
     ELSE IF saved.ret
       THEN Outcome(spliced, saved.stored, TRUE, <<>>, <<>>, 0, "ok")
     ELSE Outcome(deleteMemoRollback(spliced, index, deleted), saved.stored, FALSE,
                  <<"save_failed">>, <<>>, 0, "failed")

\* toggleMemoComplete, l.209: memo.toggleComplete() a second time; t2 is
\* what Date.now() returns in it.
toggleMemoCompleteRollback(memo, t2) == toggleComplete(memo, t2)

toggleMemoComplete(ms, st, id, t1, t2, setOk) ==
  LET index == findIndex(ms, id)
      toggled == toggleComplete(ms[index], t1)
      after == [ms EXCEPT ![index] = toggled]
      saved == saveMemos(after, st, setOk)
  IN IF index = 0
       THEN Outcome(ms, st, FALSE, <<"not_found">>, <<>>, 0, "none")
     ELSE IF saveThrows(after)
       THEN Outcome(after, st, FALSE, <<"exception">>, <<>>, 0, "none")
     ELSE IF saved.ret
       THEN Outcome(after, saved.stored, TRUE, <<>>, <<toggled>>, 0, "ok")
     ELSE Outcome([ms EXCEPT ![index] = toggleMemoCompleteRollback(toggled, t2)],
                  saved.stored, FALSE, <<"save_failed">>, <<>>, 0, "failed")

\* batchDeleteMemos, l.426-435: the forEach over ids.  Each found id is
\* removed at once, so a recorded index is the index in the collection as
\* the earlier removals left it.
RECURSIVE batchDeleteLoop(_, _, _, _, _)
batchDeleteLoop(ids, ms, deletedMemos, deleted, errors) ==
  IF ids = <<>>
    THEN [memos |-> ms, deletedMemos |-> deletedMemos, deleted |-> deleted,
          errors |-> errors]
    ELSE LET index == findIndex(ms, Head(ids))
         IN IF index # 0
              THEN batchDeleteLoop(Tail(ids), removeAt(ms, index),
                     Append(deletedMemos, [index |-> index, memo |-> ms[index]]),
                     deleted + 1, errors)
              ELSE batchDeleteLoop(Tail(ids), ms, deletedMemos, deleted,
                     Append(errors, "not_found"))

\* l.442: deletedMemos.sort((a, b) => a.index - b.index), a stable sort.
RECURSIVE insertByIndex(_, _)
insertByIndex(item, sorted) ==
  IF sorted = <<>> \/ item.index <= Head(sorted).index
    THEN <<item>> \o sorted
    ELSE <<Head(sorted)>> \o insertByIndex(item, Tail(sorted))
RECURSIVE sortByIndex(_)
sortByIndex(items) ==
  IF items = <<>> THEN <<>> ELSE insertByIndex(Head(items), sortByIndex(Tail(items)))

\* l.443-445: each item spliced back at its recorded index, in sorted order.
RECURSIVE spliceBack(_, _)
spliceBack(ms, items) ==
  IF items = <<>> THEN ms
  ELSE spliceBack(insertAt(ms, Head(items).index, Head(items).memo), Tail(items))
batchDeleteMemosRollback(ms, deletedMemos) == spliceBack(ms, sortByIndex(deletedMemos))

batchDeleteMemos(ms, st, ids, setOk) ==
  LET loop == batchDeleteLoop(ids, ms, <<>>, 0, <<>>)
      saved == saveMemos(loop.memos, st, setOk)
  IN IF saveThrows(loop.memos)
       THEN Outcome(loop.memos, st, FALSE, Append(loop.errors, "exception"), <<>>,
                    loop.deleted, "none")
     ELSE IF saved.ret
       THEN Outcome(loop.memos, saved.stored, TRUE, loop.errors, <<>>,
                    loop.deleted, "ok")
     ELSE Outcome(batchDeleteMemosRollback(loop.memos, loop.deletedMemos),
                  saved.stored, FALSE, Append(loop.errors, "save_failed"), <<>>,
                  loop.deleted, "failed")

\* clearCompleted, l.460-464
completedIds(ms) ==
  LET completed == SelectSeq(ms, LAMBDA memo : memo.isCompleted)
  IN [i \in DOMAIN completed |-> completed[i].id]
clearCompleted(ms, st, setOk) == batchDeleteMemos(ms, st, completedIds(ms), setOk)

\* importData.  data is null ([isNull |-> TRUE]), an object without a memos
\* key, or an object whose memos is an array of records; a record is null
\* ([isNull |-> TRUE]) or a field set.
IsNull(x) == Has(x, "isNull")
\* The format check testing !data only.
validFormatNonNull(data) == ~IsNull(data)
\* l.494: !data || !data.memos || !Array.isArray(data.memos), negated.  The
\* key memos of the model holds arrays only; a memos that is no array is the
\* key memosNotArray.
validFormat(data) == ~IsNull(data) /\ Has(data, "memos")
\* data.memos where it is an array.
Records(data) == IF ~IsNull(data) /\ Has(data, "memos") THEN data.memos ELSE <<>>

\* importData keeping the collection in overwrite mode.
importStartKeep(ms, merge) == ms
\* l.501-503: if (!merge) this.memos = []
importStart(ms, merge) == IF merge THEN ms ELSE <<>>

\* A colliding record written over the note that has its id.
mergeCollisionOverwrite(ms, memo, g2) == [ms EXCEPT ![findIndex(ms, memo.id)] = memo]
\* l.515-519: memo.id = memo.generateId(); this.memos.push(memo)
mergeCollision(ms, memo, g2) == Append(ms, [memo EXCEPT !.id = g2])

\* generateId() inside the loop: NoId when the model has run out of ids.
FreshId(used) == IF Ids \ used = {} THEN NoId ELSE generateId(used)

\* l.505-527: the forEach over data.memos.  i is the index of the record
\* (from 1), ts the values of the Date.now() calls (two per record), used the
\* ids in use outside the collection.  exhausted: the model ran out of ids.
RECURSIVE importLoop(_, _, _, _, _, _, _, _, _)
importLoop(records, i, ms, merge, imported, errors, ts, used, exhausted) ==
  IF i > Len(records)
    THEN [memos |-> ms, imported |-> imported, errors |-> errors,
          exhausted |-> exhausted]
    ELSE
      LET memoData == records[i]
          g == FreshId(used \cup IdsOf(ms))
          memo == fromObject(memoData, g, ts[2 * i - 1], ts[2 * i])
          validation == validate(memo)
          g2 == FreshId(used \cup IdsOf(ms) \cup {memo.id})
      IN IF IsNull(memoData)
           THEN importLoop(records, i + 1, ms, merge, imported,
                           Append(errors, "record_failed"), ts, used, exhausted)
         ELSE IF NeedsId(memoData) /\ g = NoId
           THEN importLoop(records, i + 1, ms, merge, imported, errors, ts, used, TRUE)
         ELSE IF validation.threw
           THEN importLoop(records, i + 1, ms, merge, imported,
                           Append(errors, "record_failed"), ts, used, exhausted)
         ELSE IF ~validation.isValid
           THEN importLoop(records, i + 1, ms, merge, imported,
                           Append(errors, "record_invalid"), ts, used, exhausted)
         ELSE IF findIndex(ms, memo.id) = 0
           THEN importLoop(records, i + 1, Append(ms, memo), merge, imported + 1,
                           errors, ts, used, exhausted)
         ELSE IF merge /\ g2 = NoId
           THEN importLoop(records, i + 1, ms, merge, imported, errors, ts, used, TRUE)
         ELSE IF merge
           THEN importLoop(records, i + 1, mergeCollision(ms, memo, g2), merge,
                           imported + 1, errors, ts, used, exhausted)
         ELSE importLoop(records, i + 1, ms, merge, imported, errors, ts, used,
                         exhausted)

\* importData without the assignment of l.533.
importDataRollbackNone(ms, backupMemos) == ms
\* importData, l.533: this.memos = backupMemos
importDataRollback(ms, backupMemos) == backupMemos

importData(ms, st, data, merge, ts, used, setOk) ==
  LET backupMemos == ms
      start == importStart(ms, merge)
      loop == importLoop(Records(data), 1, start, merge, 0, <<>>, ts, used, FALSE)
      saved == saveMemos(loop.memos, st, setOk)
  IN IF ~validFormat(data)
       THEN Outcome(ms, st, FALSE, <<"format">>, <<>>, 0, "none")
     ELSE IF IsNull(data) \/ ~Has(data, "memos")
       \* data.memos.forEach throws past the format test: the catch of l.537-540
       THEN Outcome(start, st, FALSE, <<"exception">>, <<>>, 0, "none")
     ELSE IF loop.exhausted
       THEN [Outcome(ms, st, FALSE, <<>>, <<>>, 0, "none") EXCEPT !.exhausted = TRUE]
     ELSE IF saveThrows(loop.memos)
       THEN Outcome(loop.memos, st, FALSE, Append(loop.errors, "exception"), <<>>,
                    loop.imported, "none")
     ELSE IF saved.ret
       THEN Outcome(loop.memos, saved.stored, loop.errors = <<>>, loop.errors, <<>>,
                    loop.imported, "ok")
     ELSE Outcome(importDataRollback(loop.memos, backupMemos), saved.stored, FALSE,
                  Append(loop.errors, "save_failed"), <<>>, loop.imported, "failed")

\* --------------------------------------------------------------- queries
\* String.prototype.toLowerCase, on the letters the model uses.
toLowerCase(str) ==
  [i \in DOMAIN str |-> IF str[i] = "A" THEN "a" ELSE IF str[i] = "B" THEN "b" ELSE str[i]]
\* String.prototype.includes and Array.prototype.includes
includes(str, part) ==
  \E i \in 1..(Len(str) - Len(part) + 1) : SubSeq(str, i, i + Len(part) - 1) = part
tagsInclude(tags, tag) == \E i \in DOMAIN tags : tags[i] = tag

\* The filter callback of searchMemos (l.230-234) and of filterMemos
\* (l.312-317).
keywordMatch(memo, keyword) ==
  LET lowerKeyword == toLowerCase(keyword)
  IN \/ includes(toLowerCase(memo.title), lowerKeyword)
     \/ includes(toLowerCase(memo.content), lowerKeyword)

\* searchMemos(keyword), filterByCategory(category), filterByPriority(priority),
\* filterByTag(tag), filterByStatus(isCompleted).  "All" is the sentinel of
\* l.243 and l.255.
searchMemos(ms, keyword) ==
  IF keyword = <<>> \/ trim(keyword) = <<>> THEN ms
  ELSE SelectSeq(ms, LAMBDA memo : keywordMatch(memo, keyword))
filterByCategory(ms, category) ==
  IF category = "" \/ category = "All" THEN ms
  ELSE SelectSeq(ms, LAMBDA memo : memo.category = category)
filterByPriority(ms, priority) ==
  IF priority = "" \/ priority = "All" THEN ms
  ELSE SelectSeq(ms, LAMBDA memo : memo.priority = priority)
filterByTag(ms, tag) ==
  IF tag = <<>> THEN ms ELSE SelectSeq(ms, LAMBDA memo : tagsInclude(memo.tags, tag))
filterByStatus(ms, isCompleted) ==
  SelectSeq(ms, LAMBDA memo : memo.isCompleted = isCompleted)

\* filterMemos with the category test of l.291 left out.
filterMemosNoCategory(ms, filters) ==
  LET byPriority ==
        IF Has(filters, "priority") /\ filters.priority # "" /\ filters.priority # "All"
          THEN SelectSeq(ms, LAMBDA memo : memo.priority = filters.priority)
          ELSE ms
      byTag ==
        IF Has(filters, "tag") /\ filters.tag # <<>>
          THEN SelectSeq(byPriority, LAMBDA memo : tagsInclude(memo.tags, filters.tag))
          ELSE byPriority
      byStatus ==
        IF Has(filters, "isCompleted")
          THEN SelectSeq(byTag, LAMBDA memo : memo.isCompleted = filters.isCompleted)
          ELSE byTag
  IN IF Has(filters, "keyword") /\ filters.keyword # <<>> /\ trim(filters.keyword) # <<>>
       THEN SelectSeq(byStatus, LAMBDA memo : keywordMatch(memo, filters.keyword))
       ELSE byStatus
\* filterMemos(filters), l.287-321: the five tests in turn, each on the
\* result of the one before.
filterMemos(ms, filters) ==
  LET byCategory ==
        IF Has(filters, "category") /\ filters.category # "" /\ filters.category # "All"
          THEN SelectSeq(ms, LAMBDA memo : memo.category = filters.category)
          ELSE ms
      byPriority ==
        IF Has(filters, "priority") /\ filters.priority # "" /\ filters.priority # "All"
          THEN SelectSeq(byCategory, LAMBDA memo : memo.priority = filters.priority)
          ELSE byCategory
      byTag ==
        IF Has(filters, "tag") /\ filters.tag # <<>>
          THEN SelectSeq(byPriority, LAMBDA memo : tagsInclude(memo.tags, filters.tag))
          ELSE byPriority
      byStatus ==
        IF Has(filters, "isCompleted")
          THEN SelectSeq(byTag, LAMBDA memo : memo.isCompleted = filters.isCompleted)
          ELSE byTag
  IN IF Has(filters, "keyword") /\ filters.keyword # <<>> /\ trim(filters.keyword) # <<>>
       THEN SelectSeq(byStatus, LAMBDA memo : keywordMatch(memo, filters.keyword))
       ELSE byStatus

\* The ranks of l.343 taken in the alphabetical order of the names.
priorityOrderLexical(priority) ==
  CASE priority = "High" -> 1 [] priority = "Low" -> 2 [] priority = "Medium" -> 3
\* l.343: priorityOrder = { High: 3, Medium: 2, Low: 1 }
priorityOrder(priority) ==
  CASE priority = "High" -> 3 [] priority = "Medium" -> 2 [] priority = "Low" -> 1

\* String.prototype.localeCompare on the letters the model uses: a < A < b <
\* B < c, a prefix before the longer string.  -1, 0 or 1.
charRank(ch) ==
  CASE ch = "a" -> 1 [] ch = "A" -> 2 [] ch = "b" -> 3 [] ch = "B" -> 4
    [] ch = "c" -> 5 [] OTHER -> 6
RECURSIVE localeCompare(_, _)
localeCompare(a, b) ==
  IF a = <<>> /\ b = <<>> THEN 0
  ELSE IF a = <<>> THEN -1
  ELSE IF b = <<>> THEN 1
  ELSE IF charRank(Head(a)) < charRank(Head(b)) THEN -1
  ELSE IF charRank(Head(a)) > charRank(Head(b)) THEN 1
  ELSE localeCompare(Tail(a), Tail(b))

\* The comparator of sortMemos, l.333-356.
compare(a, b, sortBy, order) ==
  LET comparison ==
        CASE sortBy = "createdAt" -> a.createdAt - b.createdAt
          [] sortBy = "updatedAt" -> a.updatedAt - b.updatedAt
          [] sortBy = "priority" -> priorityOrder(a.priority) - priorityOrder(b.priority)
          [] sortBy = "title" -> localeCompare(a.title, b.title)
          [] OTHER -> 0
  IN IF order = "asc" THEN comparison ELSE 0 - comparison

\* An insertion that puts the element before the elements it is equal to.
RECURSIVE sortedInsertBeforeEqual(_, _, _, _)
sortedInsertBeforeEqual(sorted, x, sortBy, order) ==
  IF sorted = <<>> THEN <<x>>
  ELSE IF compare(Head(sorted), x, sortBy, order) >= 0 THEN <<x>> \o sorted
  ELSE <<Head(sorted)>> \o sortedInsertBeforeEqual(Tail(sorted), x, sortBy, order)
\* Array.prototype.sort(comparator), a stable sort: each element of the input
\* in turn goes before the first element that compares greater than it.
RECURSIVE sortedInsert(_, _, _, _)
sortedInsert(sorted, x, sortBy, order) ==
  IF sorted = <<>> THEN <<x>>
  ELSE IF compare(Head(sorted), x, sortBy, order) > 0 THEN <<x>> \o sorted
  ELSE <<Head(sorted)>> \o sortedInsert(Tail(sorted), x, sortBy, order)
RECURSIVE sortFrom(_, _, _, _)
sortFrom(rest, sorted, sortBy, order) ==
  IF rest = <<>> THEN sorted
  ELSE sortFrom(Tail(rest), sortedInsert(sorted, Head(rest), sortBy, order), sortBy, order)

\* sortMemos(memos, sortBy, order), l.330-359
sortMemos(ms, sortBy, order) == sortFrom(ms, <<>>, sortBy, order)

\* ------------------------------------------------------------ statistics
\* A Number of JavaScript is an IEEE 754 double.  A positive double is
\* [m, e]: m its 53 significand bits, most significant first and m[1] = 1,
\* e the exponent of m[1]; its value is m[1].m[2]...m[53] times 2^e.
SignificandBits == 53

\* n more quotient bits of r / t (0 <= r < t), and the remainder after them.
RECURSIVE divBits(_, _, _, _)
divBits(r, t, n, acc) ==
  IF n = 0 THEN [bits |-> acc, rem |-> r]
  ELSE IF 2 * r >= t THEN divBits(2 * r - t, t, n - 1, Append(acc, 1))
  ELSE divBits(2 * r, t, n - 1, Append(acc, 0))

\* bits + 1, the carry out of the first bit dropped (all ones gives zeros).
RECURSIVE incBits(_)
incBits(bits) ==
  IF bits = <<>> THEN <<>>
  ELSE IF bits[Len(bits)] = 0 THEN SubSeq(bits, 1, Len(bits) - 1) \o <<1>>
  ELSE incBits(SubSeq(bits, 1, Len(bits) - 1)) \o <<0>>

\* Round to nearest, ties to even: the kept bits, up says the dropped part
\* is over the half, tie that it is the half.
roundToDouble(kept, e, up, tie) ==
  IF up \/ (tie /\ kept[Len(kept)] = 1)
    THEN IF \A i \in DOMAIN kept : kept[i] = 1
           THEN [m |-> <<1>> \o [i \in 1..(Len(kept) - 1) |-> 0], e |-> e + 1]
           ELSE [m |-> incBits(kept), e |-> e]
    ELSE [m |-> kept, e |-> e]

\* The least k >= 0 with c * 2^k >= t, for 0 < c <= t.
RECURSIVE shiftTo(_, _, _)
shiftTo(c, t, k) == IF c >= t THEN k ELSE shiftTo(2 * c, t, k + 1)
RECURSIVE Pow2(_)
Pow2(k) == IF k = 0 THEN 1 ELSE 2 * Pow2(k - 1)

\* completed / total for 0 < completed <= total, correctly rounded.
divide(c, t) ==
  LET k == shiftTo(c, t, 0)
      q == divBits(c * Pow2(k) - t, t, SignificandBits - 1, <<>>)
  IN roundToDouble(<<1>> \o q.bits, 0 - k, 2 * q.rem > t, 2 * q.rem = t)

\* The bits of a natural number, and the number of a bit sequence.
RECURSIVE toBits(_)
toBits(n) == IF n = 0 THEN <<>> ELSE toBits(n \div 2) \o <<n % 2>>
RECURSIVE bitsValue(_)
bitsValue(bits) ==
  IF bits = <<>> THEN 0
  ELSE 2 * bitsValue(SubSeq(bits, 1, Len(bits) - 1)) + bits[Len(bits)]

\* The bits of bits * k for a small k: from the last bit up, with a carry.
RECURSIVE mulBits(_, _, _, _, _)
mulBits(bits, i, k, carry, acc) ==
  IF i = 0 THEN toBits(carry) \o acc
  ELSE mulBits(bits, i - 1, k, (bits[i] * k + carry) \div 2,
               <<(bits[i] * k + carry) % 2>> \o acc)

\* x * 100, correctly rounded.
times100(x) ==
  LET product == mulBits(x.m, Len(x.m), 100, 0, <<>>)
      kept == SubSeq(product, 1, SignificandBits)
      dropped == SubSeq(product, SignificandBits + 1, Len(product))
      rest == \E i \in 2..Len(dropped) : dropped[i] = 1
  IN roundToDouble(kept, x.e + Len(product) - SignificandBits,
                   dropped[1] = 1 /\ rest, dropped[1] = 1 /\ ~rest)

\* Math.round(x): the nearest integer, a half going up.
mathRound(x) ==
  IF x.e < 0 - 1 THEN 0
  ELSE IF x.e = 0 - 1 THEN 1
  ELSE bitsValue(SubSeq(x.m, 1, x.e + 1)) + x.m[x.e + 2]

\* l.405: total > 0 ? Math.round((completed / total) * 100) : 0
completionRate(completed, total) ==
  IF total > 0
    THEN IF completed = 0 THEN 0 ELSE mathRound(times100(divide(completed, total)))
    ELSE 0

\* The UTF-16 code unit of a character the model uses.
codeUnit(ch) ==
  CASE ch = " " -> 32 [] ch = "5" -> 53 [] ch = "A" -> 65 [] ch = "B" -> 66
    [] ch = "a" -> 97 [] ch = "b" -> 98 [] ch = "c" -> 99 [] ch = "t" -> 116
    [] ch = "x" -> 120 [] OTHER -> 0
\* The comparison of Array.prototype.sort() without a comparator: strings by
\* their code units, a prefix before the longer string.
RECURSIVE lessThan(_, _)
lessThan(a, b) ==
  IF b = <<>> THEN FALSE
  ELSE IF a = <<>> THEN TRUE
  ELSE IF codeUnit(Head(a)) # codeUnit(Head(b)) THEN codeUnit(Head(a)) < codeUnit(Head(b))
  ELSE lessThan(Tail(a), Tail(b))
RECURSIVE sortInsert(_, _)
sortInsert(sorted, x) ==
  IF sorted = <<>> THEN <<x>>
  ELSE IF lessThan(x, Head(sorted)) THEN <<x>> \o sorted
  ELSE <<Head(sorted)>> \o sortInsert(Tail(sorted), x)
RECURSIVE sort(_)
sort(arr) == IF arr = <<>> THEN <<>> ELSE sortInsert(sort(SubSeq(arr, 1, Len(arr) - 1)), arr[Len(arr)])

\* l.366-369: the Set the tags of every note are added to, in the order of
\* their first insertion.
RECURSIVE addEach(_, _)
addEach(tagsSet, tags) ==
  IF tags = <<>> THEN tagsSet
  ELSE addEach(IF tagsInclude(tagsSet, Head(tags)) THEN tagsSet
               ELSE Append(tagsSet, Head(tags)), Tail(tags))
RECURSIVE tagsSetOf(_)
tagsSetOf(ms) ==
  IF ms = <<>> THEN <<>> ELSE addEach(tagsSetOf(SubSeq(ms, 1, Len(ms) - 1)), ms[Len(ms)].tags)

\* getAllTags(), l.365-371: Array.from(tagsSet).sort()
getAllTags(ms) == sort(tagsSetOf(ms))

\* l.382-398: an object of counters, one for each key, each note counted
\* under the value of its field: byCategory[memo.category]++.  On a value
\* that is no key, undefined++ adds the key with the value NaN.
countBy(ms, field, keys) ==
  [k \in keys \cup { ms[i][field] : i \in DOMAIN ms } |->
     IF k \in keys THEN Cardinality({ i \in DOMAIN ms : ms[i][field] = k })
     ELSE "NaN"]

\* getStatistics(), l.377-409
getStatistics(ms) ==
  LET total == Len(ms)
      completed == Len(SelectSeq(ms, LAMBDA m : m.isCompleted))
      pending == total - completed
  IN [ total          |-> total,
       completed      |-> completed,
       pending        |-> pending,
       completionRate |-> completionRate(completed, total),
       byCategory     |-> countBy(ms, "category", validCategories),
       byPriority     |-> countBy(ms, "priority", validPriorities),
       totalTags      |-> Len(getAllTags(ms)) ]

\* exportData(), l.471-478: t is what Date.now() returns.
exportData(ms, t) ==
  [ version    |-> "1.0",
    timestamp  |-> t,
    memos      |-> toObjects(ms),
    statistics |-> getStatistics(ms) ]

\* ----------------------------------------------------------------- inputs
T == <<"t">>
C == <<"c">>

\* Field sets given to createMemo: valid ones (the second sets every field,
\* the last ones carry an id of their own) and one per validation rule.
CreateInputs ==
  { [title |-> A],
    [title |-> B, content |-> C, category |-> "Work", priority |-> "High",
     tags |-> <<T>>, isCompleted |-> TRUE],
    [title |-> <<>>],
    [title |-> Blank],
    [title |-> LongTitle],
    [title |-> A, content |-> LongContent],
    [title |-> A, category |-> "Misc"],
    [title |-> A, priority |-> "Urgent"] }
  \cup { [title |-> A, id |-> i] : i \in Ids }

\* Patches given to updateMemo, every value of the type of its field.
UpdateInputs ==
  { [title |-> B],
    [content |-> C, category |-> "Work", priority |-> "High", tags |-> <<T>>,
     isCompleted |-> TRUE],
    [title |-> <<>>, tags |-> <<T>>],
    [title |-> LongTitle],
    [content |-> LongContent, isCompleted |-> TRUE],
    [category |-> "Misc"],
    [priority |-> "Urgent", title |-> B] }

\* Patches with a value that is not of the type of its field.
UntypedInputs ==
  { [title |-> Num5], [title |-> Null], [content |-> Null], [tags |-> Num5Tags] }

\* Records of an import payload: two exported notes, an invalid record, a
\* record without id and stamps, and null.
R1 ==
  [id |-> 1, title |-> A, content |-> <<>>, category |-> "Other",
   priority |-> "Medium", tags |-> <<>>, createdAt |-> 1, updatedAt |-> 1,
   isCompleted |-> FALSE]
R2 ==
  [id |-> 2, title |-> B, content |-> C, category |-> "Work", priority |-> "High",
   tags |-> <<T>>, createdAt |-> 1, updatedAt |-> 2, isCompleted |-> TRUE]
RInvalid == [R1 EXCEPT !.title = <<>>]
RPartial == [title |-> B]
RNull == [isNull |-> TRUE]

\* What importData is given: null, an object without memos, an object whose
\* memos is no array, and objects whose memos is one of these arrays.
ImportInputs ==
  { [isNull |-> TRUE], [version |-> "1.0"], [memosNotArray |-> TRUE] }
  \cup { [memos |-> records] :
         records \in { <<>>, <<R1>>, <<R1, R2>>, <<R2, R2>>, <<RInvalid, R2>>,
                       <<RInvalid, R2, R2>>, <<RNull, R1>>, <<RPartial>> } }

\* Field sets given to createMemo that supply stamps or tags: stamps in
\* both orders, a tag twice, an empty tag, a tag of 21 characters, 11 tags.
LongTag == Str("x", 21)
ManyTags == [i \in 1..11 |-> Str("t", i)]
FieldInputs ==
  { [title |-> A],
    [title |-> B, createdAt |-> 1, updatedAt |-> 2],
    [title |-> A, createdAt |-> 2, updatedAt |-> 1],
    [title |-> A, createdAt |-> 2],
    [title |-> A, tags |-> <<T, C>>],
    [title |-> A, tags |-> <<T, T>>],
    [title |-> A, tags |-> << <<>> >>],
    [title |-> A, tags |-> <<LongTag>>],
    [title |-> A, tags |-> ManyTags] }

\* Patches given to updateMemo with keys outside the whitelist of l.41 of
\* memo.js, alone, with a valid change and with a rejected one, and patches
\* of the tags.
PatchInputs ==
  { [id |-> 3],
    [createdAt |-> 2],
    [updatedAt |-> 1],
    [color |-> "red"],
    [title |-> B, id |-> 3, createdAt |-> 2, updatedAt |-> 1, color |-> "red"],
    [title |-> <<>>, id |-> 3, createdAt |-> 2],
    [tags |-> <<T, C>>],
    [tags |-> <<T, T>>] }

\* Records of an import payload with stamps out of order and a tag twice.
RStale == [R1 EXCEPT !.createdAt = 2]
RTags == [R2 EXCEPT !.tags = <<T, T>>]
FieldPayloads ==
  { [memos |-> records] :
    records \in { <<R1, R2>>, <<RStale>>, <<RTags>>, <<RPartial, R1>> } }

SeqsUpTo(S, n) == UNION { [1..k -> S] : k \in 0..n }

\* The field sets of the notes the queries are applied to: valid notes, with
\* equal and different titles, priorities and stamps.
QueryShapes ==
  { [title |-> A, content |-> <<>>, category |-> "Other", priority |-> "High",
     tags |-> <<>>, createdAt |-> 1, updatedAt |-> 1, isCompleted |-> FALSE],
    [title |-> B, content |-> C, category |-> "Work", priority |-> "Low",
     tags |-> <<T>>, createdAt |-> 1, updatedAt |-> 2, isCompleted |-> TRUE],
    [title |-> <<"A">>, content |-> <<>>, category |-> "Work", priority |-> "Medium",
     tags |-> <<T>>, createdAt |-> 2, updatedAt |-> 2, isCompleted |-> FALSE],
    [title |-> A, content |-> B, category |-> "Life", priority |-> "High",
     tags |-> <<>>, createdAt |-> 2, updatedAt |-> 2, isCompleted |-> TRUE],
    [title |-> B, content |-> <<>>, category |-> "Study", priority |-> "Medium",
     tags |-> <<C>>, createdAt |-> 1, updatedAt |-> 1, isCompleted |-> FALSE] }

\* The collections the queries are applied to: the note at position i has
\* the id i.
QueryCollections ==
  { [i \in DOMAIN shapes |-> Memo(shapes[i] @@ [id |-> i], NoId, 1, 1)] :
    shapes \in SeqsUpTo(QueryShapes, MaxQueryMemos) }

\* The criteria given to filterMemos: each of the five omitted or given, the
\* sentinel and the blank keyword among the values.
Criterion(k, values) == { <<>> } \cup { k :> v : v \in values }
FilterInputs ==
  { c @@ p @@ g @@ d @@ w :
      c \in Criterion("category", {"All", "Work"}),
      p \in Criterion("priority", {"All", "High"}),
      g \in Criterion("tag", {T}),
      d \in Criterion("isCompleted", BOOLEAN),
      w \in Criterion("keyword", {Blank, <<"B">>}) }

\* The sort keys and orders given to sortMemos.
SortKeys == {"createdAt", "updatedAt", "priority", "title", "id"}
SortOrders == {"asc", "desc"}

\* ---------------------------------------------------------------- actions
Init ==
  /\ memos = <<>>
  /\ stored = <<>>
  /\ now = 1
  /\ calls = 0
  /\ illTyped = 0
  /\ NoObjects
  /\ last = [op |-> "init", args |-> <<>>, before |-> <<>>, success |-> TRUE, errors |-> <<>>,
             memo |-> <<>>, count |-> 0, write |-> "none", result |-> <<>>]

\* The ids in use: generateId() returns none of them.
UsedIds == IdsOf(memos) \cup IdsOf(stored)

\* A call returns: args are its arguments, o is its outcome, t the last value
\* Date.now() returned.
\* setOk is constrained to TRUE in a call that never reaches storage.set.
Returns(op, args, o, t, setOk) ==
  /\ Len(o.memos) <= MaxMemos
  /\ o.write = "none" => setOk
  /\ memos' = o.memos
  /\ stored' = o.stored
  /\ now' = t
  /\ last' = [op |-> op, args |-> args, before |-> memos, success |-> o.success,
              errors |-> o.errors, memo |-> o.memo, count |-> o.count,
              write |-> o.write, result |-> <<>>]
  /\ UNCHANGED <<entities, heap, localStorage>>

\* The return of a call with well-typed arguments.
Return(op, args, o, t, setOk) ==
  /\ Returns(op, args, o, t, setOk)
  /\ calls' = calls + 1
  /\ illTyped' = illTyped

CreateMemo ==
  /\ calls < MaxCalls
  /\ \E memoData \in CreateInputs, setOk \in BOOLEAN :
     \E t1 \in now..MaxClock : \E t2 \in t1..MaxClock :
       /\ NeedsId(memoData) => Ids \ UsedIds # {}
       /\ \E o \in {createMemo(memos, stored, memoData, FreshId(UsedIds), t1, t2, setOk)} :
            Return("createMemo", [memoData |-> memoData], o, t2, setOk)

UpdateMemoCall(id, updates, setOk) ==
  \E t \in now..MaxClock :
    /\ (findIndex(memos, id) = 0 \/ toObjectThrows(memos[findIndex(memos, id)]))
         => t = now
    /\ \E o \in {updateMemo(memos, stored, id, updates, t, setOk)} :
         Returns("updateMemo", [id |-> id, updates |-> updates], o, t, setOk)

UpdateMemo ==
  /\ calls < MaxCalls
  /\ \E id \in Ids, updates \in UpdateInputs, setOk \in BOOLEAN :
       UpdateMemoCall(id, updates, setOk)
  /\ calls' = calls + 1
  /\ illTyped' = illTyped

UpdateMemoUntyped ==
  /\ calls < MaxCalls
  /\ illTyped < MaxIllTyped
  /\ \E id \in Ids, updates \in UntypedInputs, setOk \in BOOLEAN :
       UpdateMemoCall(id, updates, setOk)
  /\ calls' = calls
  /\ illTyped' = illTyped + 1

DeleteMemo ==
  /\ calls < MaxCalls
  /\ \E id \in Ids, setOk \in BOOLEAN :
     \E o \in {deleteMemo(memos, stored, id, setOk)} :
       Return("deleteMemo", [id |-> id], o, now, setOk)

ToggleMemoComplete ==
  /\ calls < MaxCalls
  /\ \E id \in Ids, setOk \in BOOLEAN :
     \E t1 \in now..MaxClock : \E t2 \in t1..MaxClock :
     \E o \in {toggleMemoComplete(memos, stored, id, t1, t2, setOk)} :
       /\ findIndex(memos, id) = 0 => t1 = now
       /\ o.write # "failed" => t2 = t1
       /\ Return("toggleMemoComplete", [id |-> id], o, t2, setOk)

BatchDeleteMemos ==
  /\ calls < MaxCalls
  /\ \E ids \in SeqsUpTo(Ids, MaxBatch), setOk \in BOOLEAN :
     \E o \in {batchDeleteMemos(memos, stored, ids, setOk)} :
       Return("batchDeleteMemos", [ids |-> ids], o, now, setOk)

ClearCompleted ==
  /\ calls < MaxCalls
  /\ \E setOk \in BOOLEAN :
     \E o \in {clearCompleted(memos, stored, setOk)} :
       Return("clearCompleted", <<>>, o, now, setOk)

\* The Date.now() calls of an import: positions 2i-1 and 2i are the two
\* calls of record i's constructor, made only for a stamp the record lacks.
ReadPositions(records) ==
  { 2 * i - 1 : i \in { j \in DOMAIN records :
                         ~IsNull(records[j]) /\ NeedsCreatedAt(records[j]) } }
  \cup { 2 * i : i \in { j \in DOMAIN records :
                          ~IsNull(records[j]) /\ NeedsUpdatedAt(records[j]) } }
Max(S, d) == IF S = {} THEN d ELSE CHOOSE m \in S : \A x \in S : x <= m
Readings(records) ==
  LET P == ReadPositions(records)
  IN { [k \in 1..(2 * Len(records)) |->
          IF k \in P THEN f[k]
          ELSE Max({ f[p] : p \in { q \in P : q < k } }, now)] :
       f \in { h \in [P -> now..MaxClock] :
               \A p, q \in P : p < q => h[p] <= h[q] } }
PayloadIds(data) ==
  { Records(data)[i].id : i \in { j \in DOMAIN Records(data) : Has(Records(data)[j], "id") } }

ImportData ==
  /\ calls < MaxCalls
  /\ \E data \in ImportInputs, merge \in BOOLEAN, setOk \in BOOLEAN :
     \E ts \in Readings(Records(data)) :
     \E o \in {importData(memos, stored, data, merge, ts, UsedIds \cup PayloadIds(data),
                          setOk)} :
       /\ ~o.exhausted
       /\ Return("importData", [data |-> data, merge |-> merge], o,
                 Max(Range(ts), now), setOk)

Next ==
  \/ CreateMemo
  \/ UpdateMemo
  \/ DeleteMemo
  \/ ToggleMemoComplete
  \/ BatchDeleteMemos
  \/ ClearCompleted
  \/ ImportData

Spec == Init /\ [][Next]_vars

\* The same repository with a caller that supplies stamps, tags and keys
\* outside the whitelist.
CreateMemoFields ==
  /\ calls < MaxCalls
  /\ \E memoData \in FieldInputs, setOk \in BOOLEAN :
     \E t1 \in now..MaxClock : \E t2 \in t1..MaxClock :
       /\ NeedsId(memoData) => Ids \ UsedIds # {}
       /\ NeedsCreatedAt(memoData) \/ t1 = now
       /\ NeedsUpdatedAt(memoData) \/ t2 = t1
       /\ \E o \in {createMemo(memos, stored, memoData, FreshId(UsedIds), t1, t2, setOk)} :
            Return("createMemo", [memoData |-> memoData], o, t2, setOk)

UpdateMemoFields ==
  /\ calls < MaxCalls
  /\ \E id \in Ids, updates \in PatchInputs, setOk \in BOOLEAN :
       UpdateMemoCall(id, updates, setOk)
  /\ calls' = calls + 1
  /\ illTyped' = illTyped

ImportDataFields ==
  /\ calls < MaxCalls
  /\ \E data \in FieldPayloads, merge \in BOOLEAN, setOk \in BOOLEAN :
     \E ts \in Readings(Records(data)) :
     \E o \in {importData(memos, stored, data, merge, ts, UsedIds \cup PayloadIds(data),
                          setOk)} :
       /\ ~o.exhausted
       /\ Return("importData", [data |-> data, merge |-> merge], o,
                 Max(Range(ts), now), setOk)

NextFields ==
  \/ CreateMemoFields
  \/ UpdateMemoFields
  \/ ToggleMemoComplete
  \/ DeleteMemo
  \/ ImportDataFields

SpecFields == Init /\ [][NextFields]_vars

\* A caller of the entity: it holds a note, reconstructs it from its plain
\* object, and adds and removes tags on either.
EntityNotes ==
  { Memo(shape @@ [id |-> 1], NoId, 1, 1) : shape \in QueryShapes }
  \cup { Memo([title |-> A, tags |-> <<T, C>>, id |-> 2], NoId, 1, 2),
         Memo([title |-> A, tags |-> <<T, T>>, id |-> 3], NoId, 1, 1) }
TagInputs == { T, C, <<>> }

InitEntity ==
  /\ memos = <<>>
  /\ stored = <<>>
  /\ now = 1
  /\ calls = 0
  /\ illTyped = 0
  /\ localStorage = <<>>
  /\ \E note \in EntityNotes :
       /\ entities = <<[note EXCEPT !.tags = 1]>>
       /\ heap = <<note.tags>>
  /\ last = [op |-> "init", args |-> <<>>, before |-> <<>>, success |-> TRUE, errors |-> <<>>,
             memo |-> <<>>, count |-> 0, write |-> "none", result |-> <<>>]

\* A method of the entity returns: t is the last value Date.now() returned.
Done(op, args, es, h, t) ==
  /\ entities' = es
  /\ heap' = h
  /\ now' = t
  /\ calls' = calls + 1
  /\ last' = [op |-> op, args |-> args, before |-> [entities |-> entities, heap |-> heap],
              success |-> TRUE, errors |-> <<>>, memo |-> <<>>, count |-> 0,
              write |-> "none", result |-> <<>>]
  /\ UNCHANGED <<memos, stored, illTyped, localStorage>>

\* Memo.fromObject(note.toObject()): the constructor finds every field set,
\* so it calls neither generateId() nor Date.now().
FromObjectToObject ==
  /\ calls < MaxCalls
  /\ Len(entities) = 1
  /\ \E o \in {toObjectIn(entities[1], heap)} :
       Done("fromObject", <<>>, Append(entities, fromObject(o.obj, NoId, now, now)),
            o.heap, now)

AddTag ==
  /\ calls < MaxCalls
  /\ \E e \in DOMAIN entities, tag \in TagInputs, t \in now..MaxClock :
     \E o \in {addTag(entities[e], heap, tag, t)} :
       /\ o.heap = heap => t = now
       /\ Done("addTag", [entity |-> e, tag |-> tag],
               [entities EXCEPT ![e] = o.memo], o.heap, t)

RemoveTag ==
  /\ calls < MaxCalls
  /\ \E e \in DOMAIN entities, tag \in TagInputs, t \in now..MaxClock :
     \E o \in {removeTag(entities[e], heap, tag, t)} :
       /\ o.heap = heap => t = now
       /\ Done("removeTag", [entity |-> e, tag |-> tag],
               [entities EXCEPT ![e] = o.memo], o.heap, t)

NextEntity ==
  \/ FromObjectToObject
  \/ AddTag
  \/ RemoveTag

SpecEntity == InitEntity /\ [][NextEntity]_vars

\* Callers of the storage adapter: adapters of three namespaces, one of them
\* the prefix of another up to its ':', on one underlying store that may
\* hold a key of no namespace and a text that is no JSON.
K == <<"k">>
J == <<"j">>
Namespaces == { <<"N">>, <<"N", ":", "M">>, <<"M">> }
StorageKeys == { K, J }
JsonValues ==
  { JsonNumber(n) : n \in 0..9 } \cup { JsonString(A), JsonString(<<"5">>), JsonNull }
StorageValues == { JsonNumber(5), JsonString(<<"5">>), JsonNull, Circular }
Defaults == { JsonNull, JsonNumber(7) }
Foreign == <<"z">> :> <<"1">>
Corrupt == getKey(<<"N">>, K) :> <<"{">>
Snapshots ==
  { [isNull |-> TRUE], [version |-> "1.0"] }
  \cup { [data |-> entries] :
         entries \in { <<>>, << <<K, JsonNumber(5)>> >>,
                       << <<K, JsonString(A)>>, <<J, JsonNumber(5)>> >> } }
SnapshotKeys(exportedData) ==
  IF Has(exportedData, "data")
    THEN { exportedData.data[i][1] : i \in DOMAIN exportedData.data }
    ELSE {}

InitStorage ==
  /\ memos = <<>>
  /\ stored = <<>>
  /\ now = 1
  /\ calls = 0
  /\ illTyped = 0
  /\ entities = <<>>
  /\ heap = <<>>
  /\ localStorage \in { Foreign, Foreign @@ Corrupt }
  /\ last = [op |-> "init", args |-> <<>>, before |-> <<>>, success |-> TRUE, errors |-> <<>>,
             memo |-> <<>>, count |-> 0, write |-> "none", result |-> <<>>]

\* A method of the adapter returns result and leaves the store as ls.
Returned(op, args, ls, result) ==
  /\ localStorage' = ls
  /\ calls' = calls + 1
  /\ last' = [op |-> op, args |-> args, before |-> localStorage, success |-> TRUE,
              errors |-> <<>>, memo |-> <<>>, count |-> 0, write |-> "none",
              result |-> result]
  /\ UNCHANGED <<memos, stored, now, illTyped, entities, heap>>

StorageSet ==
  /\ calls < MaxCalls
  /\ \E namespace \in Namespaces, key \in StorageKeys, value \in StorageValues,
        accept \in BOOLEAN :
     \E o \in {setIn(localStorage, namespace, key, value, accept)} :
       /\ stringifyThrows(value) => accept
       /\ Returned("storage.set",
                   [namespace |-> namespace, key |-> key, value |-> value, accept |-> accept],
                   o.ls, o.ret)

StorageGet ==
  /\ calls < MaxCalls
  /\ \E namespace \in Namespaces, key \in StorageKeys, defaultValue \in Defaults :
       Returned("storage.get",
                [namespace |-> namespace, key |-> key, defaultValue |-> defaultValue],
                localStorage, get(localStorage, namespace, key, defaultValue))

StorageClear ==
  /\ calls < MaxCalls
  /\ \E namespace \in Namespaces :
       Returned("storage.clear", [namespace |-> namespace],
                clear(localStorage, namespace), TRUE)

StorageImportData ==
  /\ calls < MaxCalls
  /\ \E namespace \in Namespaces, exportedData \in Snapshots, clearExisting \in BOOLEAN :
     \E accepted \in SUBSET SnapshotKeys(exportedData) :
     \E o \in {storageImportData(localStorage, namespace, exportedData, clearExisting,
                                 accepted)} :
       Returned("storage.importData",
                [namespace |-> namespace, exportedData |-> exportedData,
                 clearExisting |-> clearExisting, accepted |-> accepted],
                o.ls, [success |-> o.success, imported |-> o.imported, errors |-> o.errors])

NextStorage ==
  \/ StorageSet
  \/ StorageGet
  \/ StorageClear
  \/ StorageImportData

SpecStorage == InitStorage /\ [][NextStorage]_vars

\* The repository after createMemo calls, some of them with an id of the
\* caller: the collection a series of successful createMemo calls leaves,
\* computed with createMemo itself, each call at clock 1.
GrownInputs ==
  { [title |-> A],
    [title |-> B, isCompleted |-> TRUE],
    [title |-> A, id |-> 1],
    [title |-> B, id |-> 1, isCompleted |-> TRUE] }
RECURSIVE Grown(_)
Grown(inputs) ==
  IF inputs = <<>> THEN <<>>
  ELSE LET ms == Grown(SubSeq(inputs, 1, Len(inputs) - 1))
       IN createMemo(ms, toObjects(ms), inputs[Len(inputs)], FreshId(IdsOf(ms)),
                     1, 1, TRUE).memos
GrownCollections == { Grown(inputs) : inputs \in SeqsUpTo(GrownInputs, MaxMemos) }

InitGrown ==
  /\ memos \in GrownCollections
  /\ stored = toObjects(memos)
  /\ now = 1
  /\ calls = 0
  /\ illTyped = 0
  /\ NoObjects
  /\ last = [op |-> "init", args |-> <<>>, before |-> <<>>, success |-> TRUE, errors |-> <<>>,
             memo |-> <<>>, count |-> 0, write |-> "none", result |-> <<>>]

\* importData(exportData(), merge): the export reads the clock once; every
\* record carries its id and stamps, so the import reads neither.
ExportImport ==
  /\ calls < MaxCalls
  /\ \E merge \in BOOLEAN, setOk \in BOOLEAN, t \in now..MaxClock :
     \E data \in {exportData(memos, t)} :
     \E o \in {importData(memos, stored, data, merge, [k \in 1..(2 * Len(memos)) |-> t],
                          UsedIds, setOk)} :
       /\ ~o.exhausted
       /\ Return("exportImport", [data |-> data, merge |-> merge], o, t, setOk)

NextGrown ==
  \/ BatchDeleteMemos
  \/ ClearCompleted
  \/ ExportImport

SpecGrown == InitGrown /\ [][NextGrown]_vars

\* A caller of validate(): notes with every combination of a title, a
\* content, a category and a priority that keep or break each rule.
LongBlank == Str(" ", TitleMax + 1)
ValidateNotes ==
  { Memo([id |-> 1, title |-> title, content |-> content, category |-> category,
          priority |-> priority], NoId, 1, 1) :
    title \in { <<>>, Blank, A, LongTitle, LongBlank },
    content \in { <<>>, C, LongContent },
    category \in { "Work", "Misc" },
    priority \in { "High", "Urgent" } }

InitValidate ==
  /\ memos = <<>>
  /\ stored = <<>>
  /\ now = 1
  /\ calls = 0
  /\ illTyped = 0
  /\ localStorage = <<>>
  /\ \E note \in ValidateNotes :
       /\ entities = <<[note EXCEPT !.tags = 1]>>
       /\ heap = <<note.tags>>
  /\ last = [op |-> "init", args |-> <<>>, before |-> <<>>, success |-> TRUE, errors |-> <<>>,
             memo |-> <<>>, count |-> 0, write |-> "none", result |-> <<>>]

\* Memo.validate(), l.94-123: it assigns no field of this.
Validate ==
  /\ calls < MaxCalls
  /\ last' = [op |-> "validate", args |-> <<>>,
              before |-> [entities |-> entities, heap |-> heap], success |-> TRUE,
              errors |-> <<>>, memo |-> <<>>, count |-> 0, write |-> "none",
              result |-> validate(entities[1])]
  /\ calls' = calls + 1
  /\ UNCHANGED <<memos, stored, now, illTyped, entities, heap, localStorage>>

NextValidate == Validate

SpecValidate == InitValidate /\ [][NextValidate]_vars

\* The same repository with a caller that also passes ill-typed patches.
NextUntyped == Next \/ UpdateMemoUntyped

SpecUntyped == Init /\ [][NextUntyped]_vars

\* A repository holding a collection of valid notes, and a caller that
\* queries it.
InitQuery ==
  /\ memos \in QueryCollections
  /\ stored = toObjects(memos)
  /\ now = MaxClock
  /\ calls = 0
  /\ illTyped = 0
  /\ NoObjects
  /\ last = [op |-> "init", args |-> <<>>, before |-> <<>>, success |-> TRUE, errors |-> <<>>,
             memo |-> <<>>, count |-> 0, write |-> "none", result |-> <<>>]

\* A query returns: nothing of the repository changes.  A run makes one
\* query, a second one would start from the same repository.
Answer(op, args, result) ==
  /\ calls' = calls + 1
  /\ last' = [op |-> op, args |-> args, before |-> memos, success |-> TRUE,
              errors |-> <<>>, memo |-> <<>>, count |-> 0, write |-> "none",
              result |-> result]
  /\ UNCHANGED <<memos, stored, now, illTyped, entities, heap, localStorage>>

FilterMemos ==
  /\ calls = 0
  /\ \E filters \in FilterInputs :
       Answer("filterMemos", [filters |-> filters], filterMemos(memos, filters))

SortMemos ==
  /\ calls = 0
  /\ \E sortBy \in SortKeys, order \in SortOrders :
       Answer("sortMemos", [sortBy |-> sortBy, order |-> order],
              sortMemos(memos, sortBy, order))

NextQuery ==
  \/ FilterMemos
  \/ SortMemos

SpecQuery == InitQuery /\ [][NextQuery]_vars

\* The collections the statistics are taken of: the small ones of the
\* queries, and the ones of up to MaxStatMemos notes of which the first or
\* the last ones are completed, the categories and the priorities in turn.
StatShape(i, done) ==
  [title |-> A, content |-> <<>>,
   category |-> IF i % 4 = 0 THEN "Work" ELSE IF i % 4 = 1 THEN "Life"
                ELSE IF i % 4 = 2 THEN "Study" ELSE "Other",
   priority |-> IF i % 3 = 0 THEN "High" ELSE IF i % 3 = 1 THEN "Medium" ELSE "Low",
   tags |-> IF i % 2 = 0 THEN <<T>> ELSE <<>>,
   createdAt |-> 1, updatedAt |-> 1, isCompleted |-> done]
StatCollections ==
  { [i \in 1..n |-> Memo(StatShape(i, IF first THEN i <= c ELSE i > n - c)
                           @@ [id |-> i], NoId, 1, 1)] :
    <<n, c, first>> \in { x \in (0..MaxStatMemos) \X (0..MaxStatMemos) \X BOOLEAN :
                            x[2] <= x[1] } }

InitStats ==
  /\ memos \in QueryCollections \cup StatCollections
  /\ stored = toObjects(memos)
  /\ now = MaxClock
  /\ calls = 0
  /\ illTyped = 0
  /\ NoObjects
  /\ last = [op |-> "init", args |-> <<>>, before |-> <<>>, success |-> TRUE, errors |-> <<>>,
             memo |-> <<>>, count |-> 0, write |-> "none", result |-> <<>>]

GetStatistics ==
  /\ calls = 0
  /\ Answer("getStatistics", <<>>, getStatistics(memos))

NextStats == GetStatistics

SpecStats == InitStats /\ [][NextStats]_vars

\* A repository that starts empty, with a caller that creates notes with
\* tags, patches the category of a note, in one patch together with a title
\* that is null, and asks for the statistics.
TagsInputs ==
  { [title |-> A],
    [title |-> A, tags |-> <<T, C>>],
    [title |-> B, tags |-> <<C, T, C>>, category |-> "Work", priority |-> "Low"],
    [title |-> B, tags |-> <<B, <<>>, A>>, category |-> "Study", isCompleted |-> TRUE] }
CategoryInputs ==
  { [category |-> "Life"], [category |-> "Misc"], [title |-> Null, category |-> "Misc"] }

CreateMemoTags ==
  /\ calls < MaxCalls
  /\ \E memoData \in TagsInputs, setOk \in BOOLEAN :
     \E t1 \in now..MaxClock : \E t2 \in t1..MaxClock :
     \E o \in {createMemo(memos, stored, memoData, FreshId(UsedIds), t1, t2, setOk)} :
       Return("createMemo", [memoData |-> memoData], o, t2, setOk)

UpdateMemoCategory ==
  /\ illTyped < MaxIllTyped
  /\ \E id \in Ids, updates \in CategoryInputs, setOk \in BOOLEAN :
       UpdateMemoCall(id, updates, setOk)
  /\ calls' = calls
  /\ illTyped' = illTyped + 1

GetStatisticsReached ==
  /\ last.op # "getStatistics"
  /\ Answer("getStatistics", <<>>, getStatistics(memos))

NextReached ==
  \/ CreateMemoTags
  \/ UpdateMemoCategory
  \/ GetStatisticsReached

SpecReached == Init /\ [][NextReached]_vars

\* The queries as calls: result is what the call returns, same whether the
\* array it returns is the array it was given (this.memos) itself, memos the
\* collection after the call.
\* A call that builds what it returns and assigns nothing.
Built(result, ms) == [result |-> result, same |-> FALSE, memos |-> ms]
\* sortMemos sorting the array it is given: memos.sort(...) without the copy.
sortMemosInPlace(ms, sortBy, order) ==
  [result |-> sortMemos(ms, sortBy, order), same |-> TRUE,
   memos |-> sortMemos(ms, sortBy, order)]
\* sortMemos(memos, sortBy, order), l.330-359, given this.memos: the sort is
\* in place, on the copy of l.331.
sortMemosCall(ms, sortBy, order) == Built(sortMemos(ms, sortBy, order), ms)

\* Array.prototype.reverse
Reverse(arr) == [i \in 1..Len(arr) |-> arr[Len(arr) + 1 - i]]

\* Every query with its arguments; t is what Date.now() returns.
Queries(ms, t) ==
  { [op |-> "getAllMemos", args |-> <<>>, o |-> Built(ms, ms)] }
  \cup { [op |-> "getMemoById", args |-> [id |-> id], o |-> Built(getMemoById(ms, id), ms)] :
         id \in Ids }
  \cup { [op |-> "searchMemos", args |-> [keyword |-> keyword],
          o |-> Built(searchMemos(ms, keyword), ms)] : keyword \in { <<>>, Blank, A } }
  \cup { [op |-> "filterByCategory", args |-> [category |-> category],
          o |-> Built(filterByCategory(ms, category), ms)] : category \in { "All", "Work" } }
  \cup { [op |-> "filterByPriority", args |-> [priority |-> priority],
          o |-> Built(filterByPriority(ms, priority), ms)] : priority \in { "All", "High" } }
  \cup { [op |-> "filterByTag", args |-> [tag |-> tag],
          o |-> Built(filterByTag(ms, tag), ms)] : tag \in { <<>>, T } }
  \cup { [op |-> "filterByStatus", args |-> [isCompleted |-> isCompleted],
          o |-> Built(filterByStatus(ms, isCompleted), ms)] : isCompleted \in BOOLEAN }
  \cup { [op |-> "filterMemos", args |-> [filters |-> filters],
          o |-> Built(filterMemos(ms, filters), ms)] :
         filters \in { f \in FilterInputs : Cardinality(DOMAIN f) <= 1 } }
  \cup { [op |-> "sortMemos", args |-> [sortBy |-> sortBy, order |-> order],
          o |-> sortMemosCall(ms, sortBy, order)] :
         sortBy \in SortKeys, order \in SortOrders }
  \cup { [op |-> "getAllTags", args |-> <<>>, o |-> Built(getAllTags(ms), ms)] }
  \cup { [op |-> "getStatistics", args |-> <<>>, o |-> Built(getStatistics(ms), ms)] }
  \cup { [op |-> "exportData", args |-> <<>>, o |-> Built(exportData(ms, t), ms)] }
ArrayQueries == { "getAllMemos", "filterMemos", "sortMemos" }

\* A query is made: no method of l.81-92, l.224-409 and l.471-478 calls
\* saveMemos().
Query ==
  /\ calls = 0
  /\ \E q \in Queries(memos, now) :
       /\ memos' = q.o.memos
       /\ last' = [op |-> q.op, args |-> q.args, before |-> memos, success |-> TRUE,
                   errors |-> <<>>, memo |-> <<>>, count |-> 0, write |-> "none",
                   result |-> [value |-> q.o.result, same |-> q.o.same]]
  /\ calls' = calls + 1
  /\ UNCHANGED <<stored, now, illTyped, entities, heap, localStorage>>

\* The caller reverses, in place, the array a query returned.
ReverseResult ==
  /\ calls = 1
  /\ last.op \in ArrayQueries
  /\ memos' = IF last.result.same THEN Reverse(memos) ELSE memos
  /\ last' = [last EXCEPT !.op = "reverse", !.args = [of |-> last.op], !.before = memos,
                          !.result = [value |-> Reverse(last.result.value),
                                      same |-> last.result.same]]
  /\ calls' = calls + 1
  /\ UNCHANGED <<stored, now, illTyped, entities, heap, localStorage>>

NextFrame ==
  \/ Query
  \/ ReverseResult

SpecFrame == InitQuery /\ [][NextFrame]_vars

\* ------------------------------------------------------------ properties
\* The last call reached storage.set and set returned false.
SetFailed(op) == last.op = op /\ last.write = "failed"

\* C1: when set returns false during batchDeleteMemos or clearCompleted, the
\* collection on return is the sequence it was before the call, every
\* deleted note back at its original index.
C1_BatchDeleteRollbackExact ==
  (SetFailed("batchDeleteMemos") \/ SetFailed("clearCompleted"))
    => memos = last.before

\* C2: when set returns false during toggleMemoComplete of an existing id,
\* every field of every note, isCompleted and updatedAt of the target
\* included, has its value of before the call.
C2_ToggleRollbackExact ==
  SetFailed("toggleMemoComplete") => memos = last.before

\* C3: the ids of the notes of the collection are pairwise distinct.
C3_IdsPairwiseDistinct ==
  \A i, j \in DOMAIN memos : i # j => memos[i].id # memos[j].id

\* C4: when set returns false during updateMemo of an existing id with a
\* patch that passes validation, success is false, and the target note, every
\* other note and the order of the collection are as before the call.
C4_UpdateRollbackOnSaveFailure ==
  SetFailed("updateMemo") => ~last.success /\ memos = last.before

C4_Witness ==
  /\ SetFailed("updateMemo")
  /\ Len(last.before) = 2
  /\ last.args.id = last.before[1].id
  /\ \E k \in {"title", "content", "category", "priority", "tags", "isCompleted"} :
       Has(last.args.updates, k) /\ last.args.updates[k] # last.before[1][k]
  /\ now > last.before[1].updatedAt

\* C5: when set returns false during createMemo of a valid field set, success
\* is false, the returned note is null and the collection is as before.
C5_CreateRollbackOnSaveFailure ==
  SetFailed("createMemo")
    => ~last.success /\ last.memo = <<>> /\ memos = last.before

C5_Witness == SetFailed("createMemo") /\ Len(last.before) = 1

\* C6: when set returns false during deleteMemo of an existing id at index
\* i, success is false and the collection is as before, the note at index i.
C6_DeleteRollbackOnSaveFailure ==
  SetFailed("deleteMemo") => ~last.success /\ memos = last.before

C6_Witness ==
  /\ SetFailed("deleteMemo")
  /\ Len(last.before) = 2
  /\ findIndex(last.before, last.args.id) = 1

\* C7: when set returns false at the end of importData, in both merge modes
\* and for every array of records, success is false and the collection is the
\* sequence of notes it was before the import.
C7_ImportRollbackOnSaveFailure ==
  SetFailed("importData") => ~last.success /\ memos = last.before

C7_Witness ==
  /\ SetFailed("importData")
  /\ ~last.args.merge
  /\ last.before # <<>>
  /\ last.count > 0

C7_WitnessMerge ==
  /\ SetFailed("importData")
  /\ last.args.merge
  /\ last.before # <<>>
  /\ last.count > 0

\* A title, content, category and priority that break one of the five rules:
\* title empty or blank, title over 100, content over 5000, category outside
\* the four categories, priority outside the three priorities.
BlankOnly(str) == \A i \in DOMAIN str : str[i] = " "
Rejected(title, content, category, priority) ==
  \/ BlankOnly(title)
  \/ Len(title) > TitleMax
  \/ Len(content) > ContentMax
  \/ category \notin {"Work", "Life", "Study", "Other"}
  \/ priority \notin {"High", "Medium", "Low"}
Field(fields, k, default) == IF Has(fields, k) THEN fields[k] ELSE default

\* C8: createMemo with a field set that fails validation returns success =
\* false with a non-empty error list, leaves the collection as it was and
\* writes nothing to the adapter.
C8_CreateInvalidRejected ==
  [][ ( /\ last'.op = "createMemo"
        /\ Rejected(Field(last'.args.memoData, "title", <<>>),
                    Field(last'.args.memoData, "content", <<>>),
                    Field(last'.args.memoData, "category", "Other"),
                    Field(last'.args.memoData, "priority", "Medium")) )
        => /\ ~last'.success
           /\ last'.errors # <<>>
           /\ memos' = memos
           /\ last'.write = "none"
           /\ stored' = stored ]_vars

C8_Witness ==
  /\ last.op = "createMemo"
  /\ last.args.memoData.title = Blank
  /\ ~last.success
  /\ last.before # <<>>

\* The note updateMemo(id, updates) patches, as the patch leaves it.
Target == last.before[findIndex(last.before, last.args.id)]
Patched == update(Target, last.args.updates, now)
PatchRejected ==
  /\ last.op = "updateMemo"
  /\ findIndex(last.before, last.args.id) # 0
  /\ Rejected(Patched.title, Patched.content, Patched.category, Patched.priority)

\* C9: updateMemo of an existing note whose patched result fails validation
\* returns success = false with the validation errors (a title error for an
\* empty title), writes nothing to the adapter and leaves every field of the
\* note, title, tags and updatedAt included, as before the call.
C9_UpdateInvalidRolledBack ==
  [][ PatchRejected'
        => /\ ~last'.success
           /\ last'.errors # <<>>
           /\ Range(last'.errors) \subseteq
                {"title_empty", "title_long", "content_long", "category", "priority"}
           /\ BlankOnly(Patched'.title) => "title_empty" \in Range(last'.errors)
           /\ memos' = memos
           /\ last'.write = "none"
           /\ stored' = stored ]_vars

C9_Witness ==
  /\ PatchRejected
  /\ last.args.updates = [title |-> <<>>, tags |-> <<T>>]
  /\ Target.tags = <<>>
  /\ now > Target.updatedAt

\* C10: an updateMemo call that returns success = false, whatever the patch,
\* ill-typed values included, leaves every field of the target note as it
\* was before the call.
C10_UpdateFailureLeavesNothing ==
  (last.op = "updateMemo" /\ ~last.success) => memos = last.before

\* A stored object whose title and content are strings and that breaks none
\* of the five rules.
PassesValidate(obj) ==
  /\ obj.title \notin {Null, Num5}
  /\ obj.content \notin {Null, Num5}
  /\ ~Rejected(obj.title, obj.content, obj.category, obj.priority)

\* C11: from an empty store, after any sequence of calls with any arguments
\* and any pattern of set results, every note object of the array stored
\* under the notes key passes validate().
C11_StoredNotesValid ==
  \A i \in DOMAIN stored : PassesValidate(stored[i])

\* C12: after every call returns, whatever its result and whatever set
\* returned, a repository constructed from the same store holds the
\* in-memory collection: same notes, same order, same field values.
C12_StoreEqualsMemory ==
  loadMemos(stored, NoId, now) = memos

\* A record of an import payload that constructs and breaks none of the five
\* rules, and the valid records of a payload, in payload order.
ValidRecord(r) ==
  /\ ~IsNull(r)
  /\ ~Rejected(Field(r, "title", <<>>), Field(r, "content", <<>>),
               Field(r, "category", "Other"), Field(r, "priority", "Medium"))
ValidRecords(records) == SelectSeq(records, ValidRecord)

\* The note carries what the record gives, the stamps included when given.
SameFields(note, r) ==
  /\ note.title = Field(r, "title", <<>>)
  /\ note.content = Field(r, "content", <<>>)
  /\ note.category = Field(r, "category", "Other")
  /\ note.priority = Field(r, "priority", "Medium")
  /\ note.tags = Field(r, "tags", <<>>)
  /\ note.isCompleted = Field(r, "isCompleted", FALSE)
  /\ Has(r, "createdAt") => note.createdAt = r.createdAt
  /\ Has(r, "updatedAt") => note.updatedAt = r.updatedAt

\* The last call was importData of an array of records in the given mode and
\* the final set succeeded.
Imported(merge) ==
  /\ last.op = "importData"
  /\ last.args.merge = merge
  /\ Has(last.args.data, "memos")
  /\ last.write = "ok"

\* C13: importData(payload, merge = true), persistence succeeding: the notes
\* of before the import remain, unchanged and in order, as a prefix of the
\* collection, and every valid record is appended after them, a record whose
\* id is the id of an existing note under an id no earlier note has.
C13_MergeCollisionAppends ==
  Imported(TRUE) =>
    LET recs == ValidRecords(last.args.data.memos)
        n == Len(last.before)
    IN /\ Len(memos) = n + Len(recs)
       /\ SubSeq(memos, 1, n) = last.before
       /\ \A k \in 1..Len(recs) :
            LET earlier == IdsOf(SubSeq(memos, 1, n + k - 1))
            IN /\ SameFields(memos[n + k], recs[k])
               /\ memos[n + k].id \notin earlier
               /\ (Has(recs[k], "id") /\ recs[k].id \notin earlier)
                    => memos[n + k].id = recs[k].id

C13_Witness ==
  /\ Imported(TRUE)
  /\ last.success
  /\ \E k \in DOMAIN last.args.data.memos :
       /\ ValidRecord(last.args.data.memos[k])
       /\ Has(last.args.data.memos[k], "id")
       /\ last.args.data.memos[k].id \in IdsOf(last.before)
  /\ Len(memos) = Len(last.before) + 1

\* C14: importData(payload, merge = false), persistence succeeding: the
\* collection is exactly the valid records of the payload, in payload order,
\* each with its own id; no valid record is dropped.
C14_OverwriteKeepsEveryValidRecord ==
  Imported(FALSE) =>
    LET recs == ValidRecords(last.args.data.memos)
    IN /\ Len(memos) = Len(recs)
       /\ \A k \in 1..Len(recs) :
            /\ SameFields(memos[k], recs[k])
            /\ Has(recs[k], "id") => memos[k].id = recs[k].id

\* A payload that is absent, has no memos, or whose memos is no array.
FormatInvalid(data) == IsNull(data) \/ ~Has(data, "memos")

\* C15: importData with a payload that is absent or whose notes field is
\* absent or not an array returns success = false with a format error, leaves
\* the collection unchanged in both merge modes and writes nothing to the
\* adapter.
C15_ImportFormatError ==
  [][ (last'.op = "importData" /\ FormatInvalid(last'.args.data))
        => /\ ~last'.success
           /\ last'.errors = <<"format">>
           /\ last'.count = 0
           /\ memos' = memos
           /\ last'.write = "none"
           /\ stored' = stored ]_vars

C15_Witness ==
  /\ last.op = "importData"
  /\ Has(last.args.data, "memosNotArray")
  /\ ~last.args.merge
  /\ last.before # <<>>
  /\ ~last.success

\* The index of the first record of an array that is null or fails
\* validation, 0 when there is none.
FirstBad(records) ==
  IF \A i \in DOMAIN records : ValidRecord(records[i]) THEN 0
  ELSE CHOOSE i \in DOMAIN records :
         ~ValidRecord(records[i]) /\ \A j \in 1..(i - 1) : ValidRecord(records[j])
\* The per-record errors of a returned error list.
RecordErrors(errors) ==
  SelectSeq(errors, LAMBDA e : e \in {"record_failed", "record_invalid"})

\* C16: in importData a record that fails validation or fails to construct
\* is skipped with one per-index error and does not stop processing: every
\* later valid record is still appended.  success is true if and only if no
\* per-record error was recorded and the final persistence succeeded.
C16_ImportSkipsAndContinues ==
  (last.op = "importData" /\ Has(last.args.data, "memos") /\ last.write # "none") =>
    LET records == last.args.data.memos
        bad == FirstBad(records)
        later == ValidRecords(SubSeq(records, bad + 1, Len(records)))
        first == Len(memos) - Len(later)
    IN /\ Len(RecordErrors(last.errors)) = Len(records) - Len(ValidRecords(records))
       /\ last.success <=> (RecordErrors(last.errors) = <<>> /\ last.write = "ok")
       /\ (last.write = "ok" /\ bad # 0)
            => /\ first >= 0
               /\ \A k \in 1..Len(later) : SameFields(memos[first + k], later[k])
               /\ last.count >= Len(later)

\* C17: updateMemo, deleteMemo and toggleMemoComplete with an id that is not
\* in the collection return success = false with exactly one error message,
\* leave the collection unchanged and write nothing to the adapter;
\* getMemoById with such an id returns null.
C17_NotFoundIsFrame ==
  [][ ( /\ last'.op \in {"updateMemo", "deleteMemo", "toggleMemoComplete"}
        /\ last'.args.id \notin IdsOf(memos) )
        => /\ ~last'.success
           /\ Len(last'.errors) = 1
           /\ memos' = memos
           /\ last'.write = "none"
           /\ stored' = stored
           /\ getMemoById(memos, last'.args.id) = <<>>
           /\ getMemoById(memos', last'.args.id) = <<>> ]_vars

C17_Witness ==
  /\ last.op = "deleteMemo"
  /\ last.args.id \notin IdsOf(last.before)
  /\ last.before # <<>>
  /\ ~last.success

\* The note is in the result of every single-criterion query whose criterion
\* the filters give.
InEveryResult(memo, ms, filters) ==
  /\ Has(filters, "category") => memo \in Range(filterByCategory(ms, filters.category))
  /\ Has(filters, "priority") => memo \in Range(filterByPriority(ms, filters.priority))
  /\ Has(filters, "tag") => memo \in Range(filterByTag(ms, filters.tag))
  /\ Has(filters, "isCompleted") => memo \in Range(filterByStatus(ms, filters.isCompleted))
  /\ Has(filters, "keyword") => memo \in Range(searchMemos(ms, filters.keyword))
\* The criterion constrains nothing: omitted, the sentinel, a blank keyword.
NoConstraint(filters) ==
  /\ Has(filters, "category") => filters.category = "All"
  /\ Has(filters, "priority") => filters.priority = "All"
  /\ ~Has(filters, "tag")
  /\ ~Has(filters, "isCompleted")
  /\ Has(filters, "keyword") => \A i \in DOMAIN filters.keyword : filters.keyword[i] = " "

\* C18: filterMemos(criteria) returns exactly the notes that are in every one
\* of the single-criterion results, in collection order; a criterion that is
\* omitted, the sentinel for category or priority, or a blank keyword removes
\* no note.
C18_FilterIsIntersection ==
  last.op = "filterMemos" =>
    /\ last.result =
         SelectSeq(last.before,
                   LAMBDA memo : InEveryResult(memo, last.before, last.args.filters))
    /\ NoConstraint(last.args.filters) => last.result = last.before

C18_Witness ==
  /\ last.op = "filterMemos"
  /\ DOMAIN last.args.filters = {"category", "priority", "tag", "isCompleted", "keyword"}
  /\ last.args.filters.category = "Work"
  /\ last.args.filters.priority = "All"
  /\ last.args.filters.keyword = <<"B">>
  /\ Len(last.before) = 3
  /\ Len(last.result) = 1

\* The result holds the notes of the input, each once.
IsPermutation(result, input) ==
  /\ Len(result) = Len(input)
  /\ Range(result) = Range(input)
Rank(priority) == IF priority = "High" THEN 3 ELSE IF priority = "Medium" THEN 2 ELSE 1

\* C19: sortMemos(notes, 'priority', 'desc') returns a permutation of its
\* input with every High note before every Medium note and every Medium note
\* before every Low note; with 'asc' the order of the ranks is reversed.
C19_PrioritySortByRank ==
  (last.op = "sortMemos" /\ last.args.sortBy = "priority") =>
    /\ IsPermutation(last.result, last.before)
    /\ \A i, j \in DOMAIN last.result :
         i < j => IF last.args.order = "desc"
                    THEN Rank(last.result[i].priority) >= Rank(last.result[j].priority)
                    ELSE Rank(last.result[i].priority) <= Rank(last.result[j].priority)

C19_Witness ==
  /\ last.op = "sortMemos"
  /\ last.args.sortBy = "priority"
  /\ last.args.order = "desc"
  /\ Len(last.before) = 3
  /\ [i \in 1..3 |-> last.before[i].priority] = <<"High", "Low", "Medium">>
  /\ [i \in 1..3 |-> last.result[i].priority] = <<"High", "Medium", "Low">>

\* The position of the note with the id in a sequence of notes.
Position(ms, id) == CHOOSE i \in DOMAIN ms : ms[i].id = id

\* C20: sortMemos is stable for the keys createdAt, updatedAt, priority and
\* title and for both orders: two notes with equal sort key are in the
\* result in their relative order of the input.
C20_SortStable ==
  (last.op = "sortMemos"
     /\ last.args.sortBy \in {"createdAt", "updatedAt", "priority", "title"}) =>
    /\ IsPermutation(last.result, last.before)
    /\ \A i, j \in DOMAIN last.before :
         (i < j /\ last.before[i][last.args.sortBy] = last.before[j][last.args.sortBy])
           => Position(last.result, last.before[i].id)
                < Position(last.result, last.before[j].id)

C20_Witness ==
  /\ last.op = "sortMemos"
  /\ last.args.sortBy = "title"
  /\ last.args.order = "asc"
  /\ Len(last.before) = 3
  /\ last.before[1].title = B
  /\ last.before[2].title = A
  /\ last.before[3].title = B
  /\ last.before[1] # last.before[3]
  /\ last.result = <<last.before[2], last.before[1], last.before[3]>>

\* The integer nearest to num / den, a half going up.
NearestHalfUp(num, den) == (2 * num + den) \div (2 * den)

\* C21: getStatistics() returns completed + pending = total = the number of
\* notes, and a completionRate that is 0 for an empty collection and
\* otherwise the integer nearest to completed * 100 / total, a half rounded
\* up, between 0 and 100.
C21_Statistics ==
  last.op = "getStatistics" =>
    LET s == last.result
    IN /\ s.completed + s.pending = s.total
       /\ s.total = Len(memos)
       /\ s.completionRate \in 0..100
       /\ s.completionRate =
            IF s.total = 0 THEN 0 ELSE NearestHalfUp(s.completed * 100, s.total)
\* The rate of 23 completed notes of 40 is 58.
C21_Counterexample ==
  (last.op = "getStatistics" /\ last.result.total = 40 /\ last.result.completed = 23)
    => last.result.completionRate = 58

\* C22: every note of the collection has updatedAt >= createdAt, whatever
\* field sets and payloads the calls are given, stamps included.
C22_UpdatedNotBeforeCreated ==
  \A i \in DOMAIN memos : memos[i].updatedAt >= memos[i].createdAt

\* C23: the tags of every note of the collection are pairwise distinct
\* non-empty strings of at most 20 characters, at most 10 of them.
TagsWellFormed(tags) ==
  /\ Len(tags) <= 10
  /\ \A i \in DOMAIN tags : tags[i] # <<>> /\ Len(tags[i]) <= 20
  /\ \A i, j \in DOMAIN tags : i # j => tags[i] # tags[j]
C23_TagsWellFormed ==
  \A i \in DOMAIN memos : TagsWellFormed(memos[i].tags)

\* The note at position i before the call is the note at position j after
\* it, with the id and the createdAt it had.
SameIdentity(i, j) ==
  /\ j \in DOMAIN memos
  /\ memos[j].id = last.before[i].id
  /\ memos[j].createdAt = last.before[i].createdAt
\* A note keeps its position through the call.
KeptInPlace == \A i \in DOMAIN last.before : SameIdentity(i, i)

\* C24: the id and the createdAt of a note never change while it is in the
\* collection: updateMemo with any patch (keys id, createdAt, updatedAt or
\* unknown ones included), toggleMemoComplete, and calls on other notes
\* leave them as they were, whether the call succeeds or is rolled back.
C24_IdAndCreatedAtFixed ==
  CASE last.op \in {"updateMemo", "toggleMemoComplete"} ->
         Len(memos) = Len(last.before) /\ KeptInPlace
    [] last.op = "createMemo" -> KeptInPlace
    [] last.op = "deleteMemo" ->
         IF last.success
           THEN LET index == findIndex(last.before, last.args.id)
                IN \A i \in DOMAIN last.before \ {index} :
                     SameIdentity(i, IF i < index THEN i ELSE i - 1)
           ELSE Len(memos) = Len(last.before) /\ KeptInPlace
    [] last.op = "importData" ->
         (last.args.merge \/ last.write # "ok") => KeptInPlace
    [] OTHER -> TRUE
\* A successful updateMemo whose patch carries another id and another
\* createdAt than the note has.
C24_Witness ==
  /\ last.op = "updateMemo"
  /\ last.success
  /\ Has(last.args.updates, "id")
  /\ Has(last.args.updates, "createdAt")
  /\ LET memo == last.before[findIndex(last.before, last.args.id)]
     IN /\ memo.id # last.args.updates.id
        /\ memo.createdAt # last.args.updates.createdAt
\* The same patch with a title that validate() rejects: rolled back.
C24_WitnessRolledBack ==
  /\ last.op = "updateMemo"
  /\ ~last.success
  /\ last.errors = <<"title_empty">>
  /\ Has(last.args.updates, "id")
  /\ LET memo == last.before[findIndex(last.before, last.args.id)]
     IN /\ memo.id # last.args.updates.id
        /\ memo.createdAt # last.args.updates.createdAt

\* C25: Memo.fromObject(note.toObject()) has every field equal to the
\* note's, for empty and non-empty tags, and its tags are a separate array:
\* adding or removing a tag on either of the two notes leaves the tags of
\* the other as they were.
C25_RoundTripCopiesTags ==
  /\ last.op = "fromObject" =>
       /\ read(entities[2], heap) = read(entities[1], heap)
       /\ read(entities[1], heap) = read(last.before.entities[1], last.before.heap)
       /\ entities[2].tags # entities[1].tags
  /\ (last.op \in {"addTag", "removeTag"} /\ Len(entities) = 2) =>
       \A e \in DOMAIN entities \ {last.args.entity} :
         read(entities[e], heap) = read(last.before.entities[e], last.before.heap)
\* A tag is added to the reconstructed copy of a note that has tags.
C25_Witness ==
  /\ last.op = "addTag"
  /\ Len(entities) = 2
  /\ last.args.entity = 2
  /\ heap # last.before.heap
  /\ heap[entities[1].tags] # <<>>
\* A tag is removed from a note after it was reconstructed.
C25_WitnessOriginal ==
  /\ last.op = "removeTag"
  /\ Len(entities) = 2
  /\ last.args.entity = 1
  /\ heap # last.before.heap

\* C26: after a successful toggleMemoComplete(id) the note's isCompleted is
\* the negation of what it was and its updatedAt is strictly greater than
\* before the call, also when the call follows the creation or the last
\* change of the note at once.
C26_ToggleAdvancesUpdatedAt ==
  (last.op = "toggleMemoComplete" /\ last.success) =>
    LET index == findIndex(last.before, last.args.id)
    IN /\ memos[index].isCompleted = ~last.before[index].isCompleted
       /\ memos[index].updatedAt > last.before[index].updatedAt
\* The part of C26 about isCompleted alone.
C26_ToggleNegates ==
  (last.op = "toggleMemoComplete" /\ last.success) =>
    LET index == findIndex(last.before, last.args.id)
    IN memos[index].isCompleted = ~last.before[index].isCompleted

\* What C27 says of the collection and of the new note, getMemoById apart:
\* one note more, at the end, the earlier ones as they were, every omitted
\* field at its default and the stamps read from the clock during the call.
AppendsWithDefaults ==
  LET memoData == last.args.memoData
      memo == memos[Len(memos)]
  IN /\ Len(memos) = Len(last.before) + 1
     /\ SubSeq(memos, 1, Len(last.before)) = last.before
     /\ last.memo = <<memo>>
     /\ ~Has(memoData, "content") => memo.content = <<>>
     /\ ~Has(memoData, "category") => memo.category = "Other"
     /\ ~Has(memoData, "priority") => memo.priority = "Medium"
     /\ ~Has(memoData, "tags") => memo.tags = <<>>
     /\ ~Has(memoData, "isCompleted") => memo.isCompleted = FALSE
     /\ ~Has(memoData, "createdAt") => memo.createdAt <= memo.updatedAt
     /\ ~Has(memoData, "updatedAt") => memo.updatedAt = now

\* C27: a successful createMemo(fields) appends exactly one note at the end
\* of the collection and leaves the earlier notes unchanged; the new note
\* has every omitted field at its default (content empty, category Other,
\* priority Medium, tags empty, isCompleted false, the stamps at the
\* creation time) and getMemoById returns it for its id.
C27_CreateAppendsFindable ==
  (last.op = "createMemo" /\ last.success) =>
    /\ AppendsWithDefaults
    /\ getMemoById(memos, memos[Len(memos)].id) = <<memos[Len(memos)]>>
\* The part of C27 that does not depend on the id being new.
C27_CreateAppends ==
  (last.op = "createMemo" /\ last.success) => AppendsWithDefaults

\* The keys of the snapshot whose write the underlying store rejected.
RejectedKeys == SnapshotKeys(last.args.exportedData) \ last.args.accepted

\* C28: StorageManager.importData reports a partial failure: the imported
\* count is the number of keys actually written, each key whose write the
\* underlying store rejected is in errors, and success is false then.
C28_ImportReportsRejected ==
  (last.op = "storage.importData" /\ Has(last.args.exportedData, "data")) =>
    /\ last.result.imported =
         Cardinality({ key \in SnapshotKeys(last.args.exportedData) :
                       /\ getKey(last.args.namespace, key) \in DOMAIN localStorage
                       /\ key \in last.args.accepted })
    /\ \A key \in RejectedKeys :
         \E i \in DOMAIN last.result.errors : last.result.errors[i] = key
    /\ RejectedKeys # {} => ~last.result.success
\* With every write accepted the count is the number of keys and success
\* is true.
C28_ImportAllAccepted ==
  (/\ last.op = "storage.importData"
   /\ Has(last.args.exportedData, "data")
   /\ RejectedKeys = {}) =>
    /\ last.result.imported = Cardinality(SnapshotKeys(last.args.exportedData))
    /\ last.result.success

\* The keys of the underlying store written through the adapter of a
\* namespace.
KeysOf(namespace) == { getKey(namespace, key) : key \in StorageKeys }
\* clear() of the adapter of namespace leaves the keys of other as they were.
Spares(namespace, other) ==
  \A key \in KeysOf(other) \cap DOMAIN last.before :
    key \in DOMAIN localStorage /\ localStorage[key] = last.before[key]

\* C29: clear() of the adapter of a namespace removes every key written
\* through it and leaves every key of another namespace or of no namespace
\* unchanged, for every pair of namespaces, one being the prefix of the
\* other up to a ':' included.
C29_ClearOwnNamespaceOnly ==
  last.op = "storage.clear" =>
    /\ KeysOf(last.args.namespace) \cap DOMAIN localStorage = {}
    /\ \A other \in Namespaces \ {last.args.namespace} :
         Spares(last.args.namespace, other)
    /\ \A key \in DOMAIN last.before \ UNION { KeysOf(n) : n \in Namespaces } :
         key \in DOMAIN localStorage /\ localStorage[key] = last.before[key]
\* The same for the pairs of namespaces of which the cleared one followed
\* by ':' is no prefix of the other.
C29_ClearSparesUnrelated ==
  last.op = "storage.clear" =>
    /\ KeysOf(last.args.namespace) \cap DOMAIN localStorage = {}
    /\ \A other \in Namespaces \ {last.args.namespace} :
         ~startsWith(other, last.args.namespace \o <<":">>)
           => Spares(last.args.namespace, other)
    /\ \A key \in DOMAIN last.before \ UNION { KeysOf(n) : n \in Namespaces } :
         key \in DOMAIN localStorage /\ localStorage[key] = last.before[key]

\* What get returns for the key of the last call, before and after it.
GetAfter(defaultValue) ==
  get(localStorage, last.args.namespace, last.args.key, defaultValue)
GetBefore(defaultValue) ==
  get(last.before, last.args.namespace, last.args.key, defaultValue)

\* C30: get(key, default) returns the value last successfully set under
\* the key, and the default when the key is absent or its text cannot be
\* deserialized; a set that the underlying store rejects returns false, and
\* get returns for the key what it returned before.
C30_GetAfterSet ==
  /\ (last.op = "storage.set" /\ last.result) =>
       \A defaultValue \in Defaults : GetAfter(defaultValue) = last.args.value
  /\ (last.op = "storage.set" /\ ~last.args.accept) =>
       /\ last.result = FALSE
       /\ \A defaultValue \in Defaults : GetAfter(defaultValue) = GetBefore(defaultValue)
  /\ (last.op = "storage.set" /\ last.result = FALSE) => localStorage = last.before
  /\ last.op = "storage.get" =>
       /\ localStorage = last.before
       /\ getKey(last.args.namespace, last.args.key) \notin DOMAIN localStorage
            => last.result = last.args.defaultValue
       /\ (/\ getKey(last.args.namespace, last.args.key) \in DOMAIN localStorage
           /\ \A value \in JsonValues :
                localStorage[getKey(last.args.namespace, last.args.key)]
                  # stringify(value))
            => last.result = last.args.defaultValue
\* A set is rejected under a key that holds a value: get returns that value
\* still.
C30_Witness ==
  /\ last.op = "storage.set"
  /\ ~last.args.accept
  /\ getKey(last.args.namespace, last.args.key) \in DOMAIN last.before
  /\ GetBefore(JsonNull) = JsonString(<<"5">>)
  /\ last.args.value = JsonNumber(5)
\* get on a text that is no JSON returns the default.
C30_WitnessCorrupt ==
  /\ last.op = "storage.get"
  /\ getKey(last.args.namespace, last.args.key) \in DOMAIN localStorage
  /\ localStorage[getKey(last.args.namespace, last.args.key)] = <<"{">>
  /\ last.args.defaultValue = JsonNumber(7)
  /\ last.result = JsonNumber(7)

\* The entries of ids that match no note when they are processed, in a
\* collection of distinct ids: the id is not in the collection, or an
\* earlier entry removed its note.
Unmatched(ids, before) ==
  { i \in DOMAIN ids :
      ids[i] \notin IdsOf(before) \/ \E j \in 1..(i - 1) : ids[j] = ids[i] }
\* The notes of before whose id does not occur in ids, in their order.
Others(ids, before) == SelectSeq(before, LAMBDA memo : memo.id \notin Range(ids))

\* C31: a batchDeleteMemos(ids) whose persistence succeeds removes exactly
\* the notes whose id occurs in ids, keeps the other notes unchanged and in
\* their order, returns deleted equal to the number of notes removed and one
\* not-found error for each entry of ids that matched no note when it was
\* processed, a repeated id included.
C31_BatchDeleteExact ==
  (last.op = "batchDeleteMemos" /\ last.write = "ok") =>
    /\ memos = Others(last.args.ids, last.before)
    /\ last.count = Len(last.before) - Len(memos)
    /\ last.errors = [i \in 1..Cardinality(Unmatched(last.args.ids, last.before))
                         |-> "not_found"]
\* The same in a collection whose ids are pairwise distinct.
C31_BatchDeleteExactDistinct ==
  (/\ last.op = "batchDeleteMemos"
   /\ last.write = "ok"
   /\ \A i, j \in DOMAIN last.before :
        i # j => last.before[i].id # last.before[j].id) =>
    /\ memos = Others(last.args.ids, last.before)
    /\ last.count = Len(last.before) - Len(memos)
    /\ last.errors = [i \in 1..Cardinality(Unmatched(last.args.ids, last.before))
                         |-> "not_found"]

\* The notes of a collection that are not completed, in their order.
Pending(ms) == SelectSeq(ms, LAMBDA memo : ~memo.isCompleted)

\* C32: after a clearCompleted() whose persistence succeeds no note of the
\* collection is completed, the notes that were not completed before the
\* call are all there, unchanged and in their order, and deleted is the
\* number of notes that were completed before the call.
C32_ClearCompletedExact ==
  (last.op = "clearCompleted" /\ last.write = "ok") =>
    /\ \A i \in DOMAIN memos : ~memos[i].isCompleted
    /\ memos = Pending(last.before)
    /\ last.count = Len(last.before) - Len(Pending(last.before))
\* The same in a collection whose ids are pairwise distinct.
C32_ClearCompletedExactDistinct ==
  (/\ last.op = "clearCompleted"
   /\ last.write = "ok"
   /\ \A i, j \in DOMAIN last.before :
        i # j => last.before[i].id # last.before[j].id) =>
    /\ \A i \in DOMAIN memos : ~memos[i].isCompleted
    /\ memos = Pending(last.before)
    /\ last.count = Len(last.before) - Len(Pending(last.before))

\* C33: the queries getAllMemos, getMemoById, searchMemos, filterBy*,
\* filterMemos, sortMemos, getAllTags, getStatistics and exportData leave
\* the collection, contents and order, as it was and write nothing to the
\* adapter; getAllMemos, filterMemos and sortMemos return a new array, so
\* sortMemos does not reorder what it is given and reordering a returned
\* array does not reorder the collection.
C33_QueriesChangeNothing ==
  [][/\ memos' = memos
     /\ stored' = stored
     /\ last'.op \in ArrayQueries => ~last'.result.same]_vars
\* sortMemos returned the notes in another order than the collection's.
C33_Witness ==
  /\ last.op = "sortMemos"
  /\ last.result.value # memos
  /\ Len(memos) >= 2
\* The array filterMemos returned was reversed, and it is no palindrome.
C33_WitnessReversed ==
  /\ last.op = "reverse"
  /\ last.args.of = "filterMemos"
  /\ last.result.value # Reverse(last.result.value)
  /\ last.result.value = Reverse(memos)

\* The rules of a note a field breaks, in the order title non-empty, title
\* length, content length, category, priority.
OnlyBlanks(str) == \A i \in DOMAIN str : str[i] = " "
ViolatedRules(memo) ==
  SelectSeq(<<"title_empty", "title_long", "content_long", "category", "priority">>,
            LAMBDA rule :
              \/ rule = "title_empty" /\ OnlyBlanks(memo.title)
              \/ rule = "title_long" /\ Len(memo.title) > 100
              \/ rule = "content_long" /\ Len(memo.content) > 5000
              \/ rule = "category" /\ memo.category \notin {"Work", "Life", "Study", "Other"}
              \/ rule = "priority" /\ memo.priority \notin {"High", "Medium", "Low"})

\* C34: validate() changes no field of the note and reports every violated
\* rule at once, in the order title non-empty, title length <= 100, content
\* length <= 5000, category in the enum, priority in the enum: one message
\* for each violated rule, and isValid true exactly when there is none.
C34_ValidateReportsAll ==
  last.op = "validate" =>
    /\ entities = last.before.entities
    /\ heap = last.before.heap
    /\ ~last.result.threw
    /\ last.result.errors = ViolatedRules(entities[1])
    /\ last.result.isValid <=> last.result.errors = <<>>
\* A note that breaks the five rules at once.
C34_Witness ==
  /\ last.op = "validate"
  /\ Len(last.result.errors) = 5
  /\ ~last.result.isValid
\* A note that breaks none.
C34_WitnessValid ==
  /\ last.op = "validate"
  /\ last.result.isValid

\* The tags and updatedAt of the entity the last call was made on, before
\* and after it.
TagsBefore == last.before.heap[last.before.entities[last.args.entity].tags]
TagsAfter == heap[entities[last.args.entity].tags]
UpdatedAtBefore == last.before.entities[last.args.entity].updatedAt
UpdatedAtAfter == entities[last.args.entity].updatedAt
Distinct(arr) == \A i, j \in DOMAIN arr : arr[i] = arr[j] => i = j
FirstOf(arr, x) == CHOOSE i \in DOMAIN arr : arr[i] = x /\ \A j \in 1..(i - 1) : arr[j] # x
Untouched == TagsAfter = TagsBefore /\ UpdatedAtAfter = UpdatedAtBefore

\* C35: addTag(t) with t among the tags and removeTag(t) with t not among
\* them change neither the tags nor updatedAt; addTag of an absent non-empty
\* tag appends it, removeTag of a present tag takes it (its first occurrence)
\* out, and both set updatedAt to the clock; tags that were pairwise
\* distinct are pairwise distinct afterwards, the removed tag not among them.
C35_TagsStayDistinct ==
  /\ last.op = "addTag" =>
       /\ last.args.tag \in Range(TagsBefore) => Untouched
       /\ last.args.tag \notin Range(TagsBefore) /\ last.args.tag # <<>> =>
            /\ TagsAfter = Append(TagsBefore, last.args.tag)
            /\ UpdatedAtAfter = now
       /\ Distinct(TagsBefore) => Distinct(TagsAfter)
  /\ last.op = "removeTag" =>
       /\ last.args.tag \notin Range(TagsBefore) => Untouched
       /\ last.args.tag \in Range(TagsBefore) =>
            /\ TagsAfter = [i \in 1..(Len(TagsBefore) - 1) |->
                              IF i < FirstOf(TagsBefore, last.args.tag)
                                THEN TagsBefore[i] ELSE TagsBefore[i + 1]]
            /\ UpdatedAtAfter = now
       /\ Distinct(TagsBefore) =>
            Distinct(TagsAfter) /\ last.args.tag \notin Range(TagsAfter)
\* addTag of the tag a preceding addTag appended.
C35_Witness ==
  /\ last.op = "addTag"
  /\ last.args.tag \in Range(TagsBefore)
  /\ Distinct(TagsBefore)
  /\ Len(TagsBefore) = 2
  /\ UpdatedAtBefore > 1
\* removeTag of one of the two tags of a note, at a later clock reading.
C35_WitnessRemoved ==
  /\ last.op = "removeTag"
  /\ last.args.tag \in Range(TagsBefore)
  /\ Len(TagsBefore) = 2
  /\ Distinct(TagsBefore)
  /\ UpdatedAtAfter > UpdatedAtBefore

\* The operations of the repository that return a result envelope.
EnvelopeOperations ==
  { "createMemo", "updateMemo", "deleteMemo", "toggleMemoComplete",
    "batchDeleteMemos", "clearCompleted", "importData" }

C36_SuccessIffNoErrorsButBatch ==
  last.op \in EnvelopeOperations \ {"batchDeleteMemos"} =>
    (last.success <=> last.errors = <<>>)

\* C37: for an importData whose payload passes the format check, in both
\* merge modes, imported plus the number of per-record errors is the number
\* of records of the payload.
C37_EveryRecordAccounted ==
  (last.op = "importData" /\ Has(last.args.data, "memos")) =>
    last.count + Len(RecordErrors(last.errors)) = Len(last.args.data.memos)
\* The same in merge mode, and in overwrite mode of a payload whose records
\* have pairwise distinct ids.
C37_EveryRecordAccountedDistinct ==
  (/\ last.op = "importData"
   /\ Has(last.args.data, "memos")
   /\ \/ last.args.merge
      \/ \A i, j \in DOMAIN last.args.data.memos :
           (/\ i # j
            /\ ~IsNull(last.args.data.memos[i])
            /\ ~IsNull(last.args.data.memos[j])
            /\ Has(last.args.data.memos[i], "id")
            /\ Has(last.args.data.memos[j], "id"))
             => last.args.data.memos[i].id # last.args.data.memos[j].id) =>
    last.count + Len(RecordErrors(last.errors)) = Len(last.args.data.memos)

\* The sum of the counters of an object under the keys given.
RECURSIVE SumOver(_, _)
SumOver(counts, keys) ==
  IF keys = {} THEN 0
  ELSE LET k == CHOOSE k \in keys : TRUE
       IN counts[k] + SumOver(counts, keys \ {k})
\* A list that holds every tag of the collection once, in ascending order.
ListsEveryTagAscending(arr, ms) ==
  /\ Range(arr) = UNION { Range(ms[i].tags) : i \in DOMAIN ms }
  /\ \A i, j \in DOMAIN arr : i < j => lessThan(arr[i], arr[j])
PartitionedStatistics(stats, ms) ==
  /\ DOMAIN stats.byCategory = {"Work", "Life", "Study", "Other"}
  /\ SumOver(stats.byCategory, DOMAIN stats.byCategory) = stats.total
  /\ DOMAIN stats.byPriority = {"High", "Medium", "Low"}
  /\ SumOver(stats.byPriority, DOMAIN stats.byPriority) = stats.total
  /\ stats.totalTags = Len(getAllTags(ms))
  /\ ListsEveryTagAscending(getAllTags(ms), ms)

\* C38: in every state reached from the empty store getStatistics() returns
\* counts by category over exactly the four categories that sum to total,
\* counts by priority over exactly the three priorities that sum to total,
\* and totalTags equal to the length of getAllTags(), which lists every tag
\* of a note exactly once in ascending order.
C38_StatisticsPartition ==
  last.op = "getStatistics" => PartitionedStatistics(last.result, memos)
\* The same after calls that passed no null title.
C38_StatisticsPartitionTyped ==
  (last.op = "getStatistics" /\ \A i \in DOMAIN memos : memos[i].title # Null) =>
    PartitionedStatistics(last.result, memos)

\* C39: importData(exportData(), merge = false) with the persistence
\* succeeding returns success = true and imported equal to the length of the
\* collection, and leaves the collection as it was before the export: the
\* same notes with the same ids and field values in the same order.
C39_ExportImportRestores ==
  (last.op = "exportImport" /\ ~last.args.merge /\ last.write = "ok") =>
    /\ last.success
    /\ last.count = Len(last.before)
    /\ memos = last.before
\* The same of a collection whose ids are pairwise distinct.
C39_ExportImportRestoresDistinct ==
  (/\ last.op = "exportImport"
   /\ ~last.args.merge
   /\ last.write = "ok"
   /\ \A i, j \in DOMAIN last.before :
        i # j => last.before[i].id # last.before[j].id) =>
    /\ last.success
    /\ last.count = Len(last.before)
    /\ memos = last.before

\* C40: after batchDeleteMemos(ids), a failed persistence included, deleted
\* is the length of the collection before the call minus its length after;
\* after an importData whose persistence failed, imported is the number of
\* notes added to the collection, which is 0.
C40_CountsMatchCollection ==
  /\ last.op = "batchDeleteMemos" => last.count = Len(last.before) - Len(memos)
  /\ (last.op = "importData" /\ last.write = "failed") =>
       /\ last.count = Len(memos) - Len(last.before)
       /\ last.count = 0
\* The part of it on the collection: a failed persistence leaves it as long
\* as it was.
C40_FailedWriteKeepsLength ==
  (last.op \in {"batchDeleteMemos", "importData"} /\ last.write = "failed") =>
    Len(memos) = Len(last.before)
\* batchDeleteMemos whose persistence did not fail.
C40_DeletedMatchesWhenPersisted ==
  (last.op = "batchDeleteMemos" /\ last.write # "failed") =>
    last.count = Len(last.before) - Len(memos)
====
